---- MODULE Spec2Model ----
(***************************************************************************)
(* Ingestion of VTK XML files: vertex clustering (VertexClusterer),        *)
(* post-processing of the reader's result (VTKFile::read) and multi-piece  *)
(* ingestion (VTKFileReader::processParallelUnstructuredGrid).             *)
(*                                                                         *)
(* A behaviour is one call of VTKFile::read.  It starts either when        *)
(* reader.read() has returned from a single-file document, or when the     *)
(* reader of a multi-piece document has prepared its work assignments.     *)
(*                                                                         *)
(* Coordinates are integers on a grid; the tolerance maxDist, which the    *)
(* code computes as maxDim*epsilon, is an input expressed in grid units.   *)
(* Arrays are 0-based as in the code and stored in sequences: At(a,k) is   *)
(* a[k] of the code.                                                       *)
(***************************************************************************)
EXTENDS Integers, Sequences, FiniteSets, TLC

(* ---- bounds of the model ---- *)
MaxPoints == 3
MaxTol == 1
MaxPiecePoints == 2
NumPieces == 2

(* ---- program constants ---- *)
Dim == 3
LinearHexahedron == 12

Uninit == -1
Null == [null |-> TRUE]

VARIABLES
  pc,                  \* position of VTKFile::read
  vertexComponents,    \* reader.vertexComponents, one triple per vertex
  rCellVertexIndices,  \* reader.cellVertexIndices
  rCellTypes,          \* reader.cellTypes
  rVertexProperties,   \* reader.vertexProperties: records name, numComponents, components
  rCellProperties,     \* reader.cellProperties
  clusterer,           \* the VertexClusterer of VTKFile::read
  i,                   \* loop index of the loop of createClusters being executed
  pending,             \* node positions the running kd-tree traversal has yet to visit
  numVertices,         \* VTKFile::numVertices
  vertices,            \* VTKFile::vertices
  vertexPropertySlices,\* VTKFile::vertexPropertySlices
  cellVertexIndices,   \* VTKFile::cellVertexIndices
  cellTypes,           \* VTKFile::cellTypes
  cellPropertySlices,  \* VTKFile::cellPropertySlices
  pieceFiles,          \* the piece files named by the Piece elements, in piece-list order
  threadArgs,          \* processParallelUnstructuredGrid::threadArgs
  cpc,                 \* position of processParallelUnstructuredGrid
  ci,                  \* loop index of the loop of processParallelUnstructuredGrid being executed
  ok,                  \* processParallelUnstructuredGrid::ok
  baseIndex,           \* processParallelUnstructuredGrid::baseIndex
  completionOrder,     \* the pieces in the order in which their threads terminated
  thrown,              \* the exception that ended the run, "" while there is none
  doc,                 \* the XML document VTKFileReader::read is reading
  rpc,                 \* position of VTKFileReader::read
  rootCursor,          \* number of children of the root element already passed
  gridCursor,          \* number of children of the grid element already passed
  haveGrid,            \* VTKFileReader::read::haveGrid
  reader,              \* the buffers of the VTKFileReader reading doc
  reader0,             \* the reader as it was when read was called
  lpc,                 \* position of UnstructuredHexahedralVTKXML::load
  vtkFile,             \* load::vtkFile after vtkFile.read
  loadCi,              \* load::ci
  cviPtr,              \* load::cviPtr, as an offset into the connectivity array
  cellVertices,        \* load::cellVertices
  corner,              \* load::i, the index of the corner loop
  dataSetCells,        \* the cells added to load::dataSet, in order
  segment,             \* the character data segment a VTKCDataParser reads
  xmlPos,              \* the number of characters read from the segment
  lastChar,            \* VTKCDataParser::lastChar
  fpc,                 \* position of VTKCDataParser::readFloat
  local                \* the local variables of readFloat

readerVars == <<vertexComponents, rCellVertexIndices, rCellTypes, rVertexProperties,
                rCellProperties>>
fileVars == <<numVertices, vertices, vertexPropertySlices, cellVertexIndices,
              cellTypes, cellPropertySlices>>
clusterVars == <<clusterer, i, pending>>
parVars == <<pieceFiles, threadArgs, cpc, ci, ok, baseIndex, completionOrder>>
docVars == <<doc, rpc, rootCursor, gridCursor, haveGrid, reader, reader0>>
loadVars == <<lpc, vtkFile, loadCi, cviPtr, cellVertices, corner, dataSetCells>>
cdataVars == <<segment, xmlPos, lastChar, fpc, local>>
vars == <<pc, readerVars, fileVars, clusterVars, parVars, thrown, docVars, loadVars,
          cdataVars>>

(* ---- arrays ---- *)
At(a, k) == a[k + 1]
Put(a, k, v) == [a EXCEPT ![k + 1] = v]
Sqr(x) == x * x

(* ---- input point sets ---- *)
\* grid points up to one step beyond the largest tolerance
PointSet == {<<x, y, 0>> : x \in 0 .. (MaxTol + 1), y \in 0 .. 1}

RECURSIVE SeqsUpTo(_, _)
SeqsUpTo(S, n) ==
  IF n = 0 THEN {<<>>}
  ELSE LET shorter == SeqsUpTo(S, n - 1)
       IN shorter \cup {Append(s, x) : s \in {t \in shorter : Len(t) = n - 1}, x \in S}

Permutations0(n) ==
  {p \in [1 .. n -> 0 .. (n - 1)] : \A a, b \in 1 .. n : a # b => p[a] # p[b]}

(* ---- Geometry::ArrayKdTree ---- *)
NextDim(d) == IF d + 1 = Dim THEN 0 ELSE d + 1

\* nodes[left..right] is a kd-tree over the points vc, split along dimension d
\* at the median position: what createTree/releasePoints leave in the node array
RECURSIVE IsKdTree(_, _, _, _, _)
IsKdTree(vc, nodes, left, right, d) ==
  IF left > right THEN TRUE
  ELSE LET mid == (left + right) \div 2
           key(k) == At(vc, At(nodes, k))[d + 1]
       IN /\ \A k \in left .. (mid - 1) : key(k) <= key(mid)
          /\ \A k \in (mid + 1) .. right : key(k) >= key(mid)
          /\ IsKdTree(vc, nodes, left, mid - 1, NextDim(d))
          /\ IsKdTree(vc, nodes, mid + 1, right, NextDim(d))

KdTrees(vc) ==
  {nodes \in Permutations0(Len(vc)) : IsKdTree(vc, nodes, 0, Len(vc) - 1, 0)}

(* ---- VertexClusterer ---- *)
SqrDist(p, q) == Sqr(p[1] - q[1]) + Sqr(p[2] - q[2]) + Sqr(p[3] - q[3])

\* VertexClusterer::VertexClusterer
NewClusterer(vc, nodes) ==
  [ points |-> vc,
    vertices |-> nodes,
    clusters |-> [k \in 1 .. Len(vc) |->
                    [root |-> k - 1, centroidAcc |-> vc[k],
                     centroidWeight |-> 1, vertexIndex |-> Uninit]],
    numClusters |-> Uninit,
    rootClusters |-> Null,
    currentCenter |-> Null,
    currentMaxDist2 |-> Uninit,
    currentCluster |-> Null ]

\* while(root!=root->root) root=root->root;
RECURSIVE FindRoot(_, _)
FindRoot(clusters, c) ==
  IF At(clusters, c).root = c THEN c ELSE FindRoot(clusters, At(clusters, c).root)

\* mutant of CullReturn: the other side of a node is never searched
CullReturnNever(c, node, splitDimension) ==
  Sqr(c.currentCenter[splitDimension + 1] - At(c.points, node)[splitDimension + 1]) < 0

\* the return value of operator(): is the other side of the node searched too
CullReturn(c, node, splitDimension) ==
  Sqr(c.currentCenter[splitDimension + 1] - At(c.points, node)[splitDimension + 1])
    <= c.currentMaxDist2

\* mutant of OperatorCall: a merge keeps the centroid of the surviving root
OperatorCallKeepFirst(c, node) ==
  IF SqrDist(At(c.points, node), c.currentCenter) <= c.currentMaxDist2
  THEN LET root == FindRoot(c.clusters, c.currentCluster)
           otherRoot == FindRoot(c.clusters, node)
           merged ==
             IF otherRoot # root
             THEN Put(c.clusters, otherRoot, [At(c.clusters, otherRoot) EXCEPT !.root = root])
             ELSE c.clusters
           sc1 == Put(merged, c.currentCluster,
                      [At(merged, c.currentCluster) EXCEPT !.root = root])
           sc2 == Put(sc1, node, [At(sc1, node) EXCEPT !.root = root])
       IN [c EXCEPT !.clusters = sc2]
  ELSE c

\* mutant of OperatorCall: the current cluster is taken for its root
OperatorCallUnderCurrent(c, node) ==
  IF SqrDist(At(c.points, node), c.currentCenter) <= c.currentMaxDist2
  THEN LET root == c.currentCluster
           otherRoot == FindRoot(c.clusters, node)
           merged ==
             IF otherRoot # root
             THEN Put(c.clusters, otherRoot, [At(c.clusters, otherRoot) EXCEPT !.root = root])
             ELSE c.clusters
           sc1 == Put(merged, c.currentCluster,
                      [At(merged, c.currentCluster) EXCEPT !.root = root])
           sc2 == Put(sc1, node, [At(sc1, node) EXCEPT !.root = root])
       IN [c EXCEPT !.clusters = sc2]
  ELSE c

\* the state change of operator() called for the kd-tree node holding raw vertex node
OperatorCall(c, node) ==
  IF SqrDist(At(c.points, node), c.currentCenter) <= c.currentMaxDist2
  THEN LET root == FindRoot(c.clusters, c.currentCluster)
           otherCluster == node
           otherRoot == FindRoot(c.clusters, otherCluster)
           merged ==
             IF otherRoot # root
             THEN LET r == At(c.clusters, root)
                      o == At(c.clusters, otherRoot)
                      cl1 == Put(c.clusters, root,
                               [r EXCEPT !.centroidAcc =
                                           [j \in 1 .. Dim |-> r.centroidAcc[j] + o.centroidAcc[j]],
                                         !.centroidWeight = r.centroidWeight + o.centroidWeight])
                  IN Put(cl1, otherRoot, [o EXCEPT !.root = root])
             ELSE c.clusters
           sc1 == Put(merged, c.currentCluster,
                      [At(merged, c.currentCluster) EXCEPT !.root = root])
           sc2 == Put(sc1, otherCluster, [At(sc1, otherCluster) EXCEPT !.root = root])
       IN [c EXCEPT !.clusters = sc2]
  ELSE c

\* ArrayKdTree::traverseTreeDirected: the node positions visited, in order
RECURSIVE TraverseTreeDirected(_, _, _, _)
TraverseTreeDirected(c, left, right, splitDimension) ==
  LET mid == (left + right) \div 2
      child == NextDim(splitDimension)
      node == At(c.vertices, mid)
      leftSub == IF left < mid THEN TraverseTreeDirected(c, left, mid - 1, child) ELSE <<>>
      rightSub == IF right > mid THEN TraverseTreeDirected(c, mid + 1, right, child) ELSE <<>>
  IN IF c.currentCenter[splitDimension + 1] < At(c.points, node)[splitDimension + 1]
     THEN leftSub \o <<mid>> \o
          (IF CullReturn(c, node, splitDimension) THEN rightSub ELSE <<>>)
     ELSE rightSub \o <<mid>> \o
          (IF CullReturn(c, node, splitDimension) THEN leftSub ELSE <<>>)

\* createClusters, loop header of the merging loop for kd-tree node k
SetQuery(c, k) ==
  [c EXCEPT !.currentCenter = At(c.points, At(c.vertices, k)),
            !.currentCluster = At(c.vertices, k)]

\* createClusters, one iteration of the index assignment loop
RECURSIVE ShortCircuit(_, _)
ShortCircuit(clusters, k) ==
  LET r == At(clusters, k).root
  IN IF r # At(clusters, r).root
     THEN ShortCircuit(Put(clusters, k, [At(clusters, k) EXCEPT !.root = At(clusters, r).root]), k)
     ELSE clusters

\* mutant of AssignIndex: a root gets its own position as vertex index
AssignIndexSparse(c, k) ==
  IF At(c.clusters, k).root = k
  THEN [c EXCEPT !.clusters = Put(c.clusters, k,
                                  [At(c.clusters, k) EXCEPT !.vertexIndex = k]),
                 !.numClusters = c.numClusters + 1]
  ELSE [c EXCEPT !.clusters = ShortCircuit(c.clusters, k)]

AssignIndex(c, k) ==
  IF At(c.clusters, k).root = k
  THEN [c EXCEPT !.clusters = Put(c.clusters, k,
                                  [At(c.clusters, k) EXCEPT !.vertexIndex = c.numClusters]),
                 !.numClusters = c.numClusters + 1]
  ELSE [c EXCEPT !.clusters = ShortCircuit(c.clusters, k)]

\* mutant of RootsFrom: the roots collected from the end of the cluster array
RECURSIVE RootsFromReversed(_, _)
RootsFromReversed(clusters, k) ==
  IF k >= Len(clusters) THEN <<>>
  ELSE RootsFromReversed(clusters, k + 1) \o (IF At(clusters, k).root = k THEN <<k>> ELSE <<>>)

\* createClusters, collection of the root clusters
RECURSIVE RootsFrom(_, _)
RootsFrom(clusters, k) ==
  IF k >= Len(clusters) THEN <<>>
  ELSE (IF At(clusters, k).root = k THEN <<k>> ELSE <<>>) \o RootsFrom(clusters, k + 1)

CollectRoots(c) == [c EXCEPT !.rootClusters = RootsFrom(c.clusters, 0)]

\* exact quotient a/b, kept as a fraction
Quot(a, b) == <<a, b>>

\* retrieveMergedVertices
RetrieveMergedVertices(c) ==
  [m \in 1 .. Len(c.rootClusters) |->
     LET rc == At(c.clusters, c.rootClusters[m])
     IN [j \in 1 .. Dim |-> Quot(rc.centroidAcc[j], rc.centroidWeight)]]

\* mutant of GetOriginalVertexIndex: the merged index taken for an original one
GetOriginalVertexIndexSame(c, mergedVertexIndex) == mergedVertexIndex

\* getOriginalVertexIndex
GetOriginalVertexIndex(c, mergedVertexIndex) == At(c.rootClusters, mergedVertexIndex)

\* getMergedVertexIndex for an index inside the cluster array
GetMergedVertexIndex(c, originalVertexIndex) ==
  At(c.clusters, At(c.clusters, originalVertexIndex).root).vertexIndex


\* retrieveMergedVertices(std::vector<Scalar>&): the quotients as grid
\* coordinates (a piece's tolerance is below the grid unit, so that the
\* vertices merged in a piece coincide and the quotient is exact)
RetrieveMergedVertexComponents(c) ==
  [m \in 1 .. Len(c.rootClusters) |->
     LET rc == At(c.clusters, c.rootClusters[m])
     IN [j \in 1 .. Dim |-> rc.centroidAcc[j] \div rc.centroidWeight]]

\* createClusters run from entry to return
RECURSIVE VisitAll(_, _)
VisitAll(c, pend) ==
  IF pend = <<>> THEN c
  ELSE VisitAll(OperatorCall(c, At(c.vertices, Head(pend))), Tail(pend))

RECURSIVE MergeLoop(_, _)
MergeLoop(c, k) ==
  IF k >= Len(c.points) THEN c
  ELSE LET q == SetQuery(c, k)
       IN MergeLoop(VisitAll(q, TraverseTreeDirected(q, 0, Len(c.points) - 1, 0)), k + 1)

RECURSIVE AssignLoop(_, _)
AssignLoop(c, k) ==
  IF k >= Len(c.points) THEN c ELSE AssignLoop(AssignIndex(c, k), k + 1)

CreateClusters(c, maxDist) ==
  CollectRoots(
    AssignLoop([MergeLoop([c EXCEPT !.currentMaxDist2 = Sqr(maxDist)], 0)
                  EXCEPT !.numClusters = 0], 0))

\* a kd-tree built by stable median splits
RECURSIVE InsertByKey(_, _, _, _)
InsertByKey(vc, s, x, d) ==
  IF s = <<>> THEN <<x>>
  ELSE IF At(vc, x)[d + 1] < At(vc, Head(s))[d + 1] THEN <<x>> \o s
       ELSE <<Head(s)>> \o InsertByKey(vc, Tail(s), x, d)

RECURSIVE SortByKey(_, _, _)
SortByKey(vc, s, d) ==
  IF s = <<>> THEN <<>>
  ELSE InsertByKey(vc, SortByKey(vc, SubSeq(s, 1, Len(s) - 1), d), s[Len(s)], d)

RECURSIVE BuildKdTree(_, _, _)
BuildKdTree(vc, s, d) ==
  IF s = <<>> THEN <<>>
  ELSE LET sorted == SortByKey(vc, s, d)
           mid == (Len(s) - 1) \div 2
       IN BuildKdTree(vc, SubSeq(sorted, 1, mid), NextDim(d))
          \o <<sorted[mid + 1]>>
          \o BuildKdTree(vc, SubSeq(sorted, mid + 2, Len(s)), NextDim(d))

(* ---- the content of the files read ---- *)

\* value of component c of property p for entity w (a raw vertex or a cell)
\* in file f (0: the single file; k+1: piece k)
FileValue(f, p, w, c) == 1000 * f + 100 * p + 10 * w + c

\* the vertex properties a reader holds after reading file f with n raw
\* vertices: a scalar and a vector property with one value per raw vertex
\* (every Piece element of the file carried a PointData element)
FileVertexProperties(f, n) ==
  << [name |-> "T", numComponents |-> 1,
      components |-> [k \in 1 .. n |-> FileValue(f, 1, k - 1, 0)]],
     [name |-> "V", numComponents |-> 3,
      components |-> [k \in 1 .. 3 * n |-> FileValue(f, 2, (k - 1) \div 3, (k - 1) % 3)]] >>

\* the file's connectivity: one cell of 8 entries running over all raw
\* vertices; with oob its first entry is an index no raw vertex has
FileCellVertexIndices(n, oob) ==
  IF n = 0 THEN <<>>
  ELSE [j \in 1 .. 8 |-> IF oob /\ j = 1 THEN n ELSE (8 - j) % n]

FileCellTypes(n) == IF n = 0 THEN <<>> ELSE <<LinearHexahedron>>

FileCellProperties(f, n) ==
  << [name |-> "C", numComponents |-> 1,
      components |-> IF n = 0 THEN <<>> ELSE <<FileValue(f, 3, 0, 0)>>] >>

\* the property shapes declared by PPointData/PCellData: no values
DeclaredShapes(props) == [p \in 1 .. Len(props) |-> [props[p] EXCEPT !.components = <<>>]]

\* the piece files a multi-piece document can name: unreadable ones (bad),
\* and readable ones whose raw vertices lie on two grid points
PiecePointSet == {<<0, 0, 0>>, <<1, 0, 0>>}

PieceFiles ==
  {[bad |-> TRUE, points |-> <<>>, oob |-> FALSE],
   [bad |-> FALSE, points |-> << <<0, 0, 0>> >>, oob |-> TRUE]}
  \cup {[bad |-> FALSE, points |-> s, oob |-> FALSE] :
          s \in {t \in SeqsUpTo(PiecePointSet, MaxPiecePoints) :
                   Len(t) >= 1 /\ t[1] = <<0, 0, 0>>}}

\* values a read outside the cluster array can yield: one that is a vertex
\* index and one that is none
GarbageIndices(c) == {0, Len(c.clusters) + 1}

(* ---- VTKFile::read ---- *)

N == Len(vertexComponents)

\* "Copy the read file's vertex property values"
RECURSIVE SliceValues(_, _, _, _)
SliceValues(c, props, p, nVerts) ==
  IF p > Len(props) THEN <<>>
  ELSE LET nc == props[p].numComponents
           slice(componentIndex) ==
             [vi \in 1 .. nVerts |->
                At(props[p].components,
                   GetOriginalVertexIndex(c, vi - 1) * nc + componentIndex)]
       IN (IF nc = 1 THEN slice(0) ELSE slice(0) \o slice(1) \o slice(2))
          \o SliceValues(c, props, p + 1, nVerts)

\* "Copy the read file's cell property values"
RECURSIVE CellSliceValues(_, _, _)
CellSliceValues(props, p, nCells) ==
  IF p > Len(props) THEN <<>>
  ELSE LET nc == props[p].numComponents
           slice(componentIndex) ==
             [cell \in 1 .. nCells |->
                At(props[p].components, (cell - 1) * nc + componentIndex)]
       IN (IF nc = 1 THEN slice(0) ELSE slice(0) \o slice(1) \o slice(2))
          \o CellSliceValues(props, p + 1, nCells)

OutOfRange(c, cvi) == {k \in 1 .. Len(cvi) : cvi[k] >= Len(c.clusters)}

\* "Create the array of merged cell vertex indices"; garbage gives the value
\* read for each entry that lies outside the cluster array
RemapIndices(c, cvi, garbage) ==
  [k \in 1 .. Len(cvi) |->
     IF cvi[k] < Len(c.clusters) THEN GetMergedVertexIndex(c, cvi[k]) ELSE garbage[k]]

\* no exception raised
NoError == [what |-> "", args |-> <<>>]

\* Misc::makeStdErr(prettyFunction, formatString, ...): the message and the
\* arguments formatted into it
MakeStdErr(what, args) == [what |-> what, args |-> args]

\* no document is being read by the step-by-step VTKFileReader::read
DocIdle ==
  /\ doc = Null
  /\ rpc = "idle"
  /\ rootCursor = 0
  /\ gridCursor = 0
  /\ haveGrid = FALSE
  /\ reader = Null
  /\ reader0 = Null

\* UnstructuredHexahedralVTKXML::load is not running
LoadIdle ==
  /\ lpc = "idle"
  /\ vtkFile = Null
  /\ loadCi = 0
  /\ cviPtr = 0
  /\ cellVertices = <<>>
  /\ corner = 0
  /\ dataSetCells = <<>>

\* no VTKCDataParser exists
CDataIdle ==
  /\ segment = <<>>
  /\ xmlPos = 0
  /\ lastChar = Null
  /\ fpc = "idle"
  /\ local = Null

FileInit ==
  /\ thrown = NoError
  /\ DocIdle
  /\ LoadIdle
  /\ CDataIdle
  /\ numVertices = 0
  /\ vertices = <<>>
  /\ vertexPropertySlices = <<>>
  /\ cellVertexIndices = <<>>
  /\ cellTypes = <<>>
  /\ cellPropertySlices = <<>>
  /\ clusterer = Null
  /\ i = 0
  /\ pending = <<>>

\* reader.read() has returned from a single-file document
SingleInit ==
  /\ pc = "read"
  /\ vertexComponents \in SeqsUpTo(PointSet, MaxPoints)
  /\ \E oob \in {FALSE} \cup {Len(vertexComponents) = 1} :
       rCellVertexIndices = FileCellVertexIndices(Len(vertexComponents), oob)
  /\ rCellTypes = FileCellTypes(Len(vertexComponents))
  /\ rVertexProperties = FileVertexProperties(0, Len(vertexComponents))
  /\ rCellProperties = FileCellProperties(0, Len(vertexComponents))
  /\ FileInit
  /\ pieceFiles = <<>>
  /\ threadArgs = <<>>
  /\ cpc = "idle"
  /\ ci = 0
  /\ ok = TRUE
  /\ baseIndex = 0
  /\ completionOrder = <<>>

\* VertexClusterer clusterer(reader.getVertexComponents()), single-file document
Construct ==
  /\ pc = "read"
  /\ cpc = "idle"
  /\ \E nodes \in KdTrees(vertexComponents) :
       clusterer' = NewClusterer(vertexComponents, nodes)
  /\ pc' = "constructed"
  /\ UNCHANGED <<thrown, docVars, loadVars, cdataVars>>
  /\ UNCHANGED <<readerVars, fileVars, i, pending, parVars>>

\* createClusters entered with the tolerance maxDist
CreateClustersBegin ==
  /\ pc = "constructed"
  /\ \E maxDist \in 0 .. MaxTol :
       clusterer' = [clusterer EXCEPT !.currentMaxDist2 = Sqr(maxDist)]
  /\ i' = 0
  /\ pc' = "merge"
  /\ UNCHANGED <<thrown, docVars, loadVars, cdataVars>>
  /\ UNCHANGED <<readerVars, fileVars, pending, parVars>>

\* merging loop: query set to kd-tree node i and the traversal started
StartTraversal ==
  /\ pc = "merge"
  /\ i < N
  /\ LET c == SetQuery(clusterer, i)
     IN /\ clusterer' = c
        /\ pending' = TraverseTreeDirected(c, 0, N - 1, 0)
  /\ pc' = "traverse"
  /\ UNCHANGED <<thrown, docVars, loadVars, cdataVars>>
  /\ UNCHANGED <<readerVars, fileVars, i, parVars>>

\* one call of operator() by the traversal
Visit ==
  /\ pc = "traverse"
  /\ pending # <<>>
  /\ clusterer' = OperatorCall(clusterer, At(clusterer.vertices, Head(pending)))
  /\ pending' = Tail(pending)
  /\ IF Tail(pending) = <<>>
     THEN i' = i + 1 /\ pc' = "merge"
     ELSE UNCHANGED <<i, pc>>
  /\ UNCHANGED <<thrown, docVars, loadVars, cdataVars>>
  /\ UNCHANGED <<readerVars, fileVars, parVars>>

\* merging loop left, numClusters=Index(0)
MergeDone ==
  /\ pc = "merge"
  /\ i = N
  /\ clusterer' = [clusterer EXCEPT !.numClusters = 0]
  /\ i' = 0
  /\ pc' = "assign"
  /\ UNCHANGED <<thrown, docVars, loadVars, cdataVars>>
  /\ UNCHANGED <<readerVars, fileVars, pending, parVars>>

\* one iteration of the index assignment loop
AssignStep ==
  /\ pc = "assign"
  /\ i < N
  /\ clusterer' = AssignIndex(clusterer, i)
  /\ i' = i + 1
  /\ UNCHANGED <<thrown, docVars, loadVars, cdataVars>>
  /\ UNCHANGED <<pc, readerVars, fileVars, pending, parVars>>

\* root clusters collected, numVertices=clusterer.createClusters(maxDist)
CreateClustersReturn ==
  /\ pc = "assign"
  /\ i = N
  /\ clusterer' = CollectRoots(clusterer)
  /\ numVertices' = clusterer.numClusters
  /\ pc' = "clustered"
  /\ UNCHANGED <<thrown, docVars, loadVars, cdataVars>>
  /\ UNCHANGED <<readerVars, vertices, vertexPropertySlices, cellVertexIndices,
                 cellTypes, cellPropertySlices, i, pending, parVars>>

\* vertices=clusterer.retrieveMergedVertices()
Retrieve ==
  /\ pc = "clustered"
  /\ vertices' = RetrieveMergedVertices(clusterer)
  /\ pc' = "properties"
  /\ UNCHANGED <<thrown, docVars, loadVars, cdataVars>>
  /\ UNCHANGED <<readerVars, numVertices, vertexPropertySlices, cellVertexIndices,
                 cellTypes, cellPropertySlices, clusterVars, parVars>>

CopyVertexProperties ==
  /\ pc = "properties"
  /\ vertexPropertySlices' = SliceValues(clusterer, rVertexProperties, 1, numVertices)
  /\ pc' = "remap"
  /\ UNCHANGED <<thrown, docVars, loadVars, cdataVars>>
  /\ UNCHANGED <<readerVars, numVertices, vertices, cellVertexIndices,
                 cellTypes, cellPropertySlices, clusterVars, parVars>>

\* connectivity remapped; an entry outside the cluster array reads memory
\* that is no cluster: any value, or the program dies
Remap ==
  /\ pc = "remap"
  /\ \/ /\ \E garbage \in [OutOfRange(clusterer, rCellVertexIndices) -> GarbageIndices(clusterer)] :
            cellVertexIndices' = RemapIndices(clusterer, rCellVertexIndices, garbage)
        /\ pc' = "cells"
     \/ /\ OutOfRange(clusterer, rCellVertexIndices) # {}
        /\ pc' = "crashed"
        /\ UNCHANGED cellVertexIndices
  /\ UNCHANGED <<thrown, docVars, loadVars, cdataVars>>
  /\ UNCHANGED <<readerVars, numVertices, vertices, vertexPropertySlices,
                 cellTypes, cellPropertySlices, clusterVars, parVars>>

\* cell types and cell property values copied, VTKFile::read returns
CopyCells ==
  /\ pc = "cells"
  /\ cellTypes' = rCellTypes
  /\ cellPropertySlices' = CellSliceValues(rCellProperties, 1, Len(rCellTypes))
  /\ pc' = "done"
  /\ UNCHANGED <<thrown, docVars, loadVars, cdataVars>>
  /\ UNCHANGED <<readerVars, numVertices, vertices, vertexPropertySlices,
                 cellVertexIndices, clusterVars, parVars>>

(* ---- VTKFileReader::processParallelUnstructuredGrid ---- *)

Pieces == 0 .. (NumPieces - 1)

\* a piece reader created by "Prepare work assignments": properties declared, no data
NewPieceReader(vertexProps, cellProps) ==
  [ vertexComponents |-> <<>>, cellVertexIndices |-> <<>>, cellTypes |-> <<>>,
    vertexProperties |-> DeclaredShapes(vertexProps),
    cellProperties |-> DeclaredShapes(cellProps) ]

\* the piece reader after read() has returned from piece file k
ReadPieceFile(k, file) ==
  [ vertexComponents |-> file.points,
    cellVertexIndices |-> FileCellVertexIndices(Len(file.points), file.oob),
    cellTypes |-> FileCellTypes(Len(file.points)),
    vertexProperties |-> FileVertexProperties(k + 1, Len(file.points)),
    cellProperties |-> FileCellProperties(k + 1, Len(file.points)) ]

\* the work assignments are prepared and no thread is started yet
ParallelInit ==
  /\ pc = "reading"
  /\ pieceFiles \in [1 .. NumPieces -> PieceFiles]
  /\ vertexComponents = <<>>
  /\ rCellVertexIndices = <<>>
  /\ rCellTypes = <<>>
  /\ rVertexProperties = DeclaredShapes(FileVertexProperties(0, 0))
  /\ rCellProperties = DeclaredShapes(FileCellProperties(0, 0))
  /\ FileInit
  /\ threadArgs = [k \in 1 .. NumPieces |->
                     [reader |-> NewPieceReader(rVertexProperties, rCellProperties),
                      clusterer |-> Null, numVertices |-> Uninit,
                      thread |-> "unstarted", wpc |-> "read", ok |-> FALSE]]
  /\ cpc = "start"
  /\ ci = 0
  /\ ok = TRUE
  /\ baseIndex = 0
  /\ completionOrder = <<>>

\* threadArgs[i].thread.start(readerThreadFunction,threadArgs+i)
StartThread ==
  /\ cpc = "start"
  /\ ci < NumPieces
  /\ threadArgs' = Put(threadArgs, ci, [At(threadArgs, ci) EXCEPT !.thread = "running"])
  /\ IF ci + 1 = NumPieces
     THEN cpc' = "join" /\ ci' = 0
     ELSE cpc' = cpc /\ ci' = ci + 1
  /\ UNCHANGED <<thrown, docVars, loadVars, cdataVars>>
  /\ UNCHANGED <<pc, readerVars, fileVars, clusterVars, pieceFiles, ok, baseIndex,
                 completionOrder>>

\* readerThreadFunction: ta->reader->read(); an exception ends the thread
WorkerRead(k) ==
  /\ k < Len(threadArgs)
  /\ At(threadArgs, k).thread = "running"
  /\ At(threadArgs, k).wpc = "read"
  /\ IF At(pieceFiles, k).bad
     THEN /\ threadArgs' = Put(threadArgs, k,
                             [At(threadArgs, k) EXCEPT !.thread = "terminated", !.wpc = "end"])
          /\ completionOrder' = Append(completionOrder, k)
     ELSE /\ threadArgs' = Put(threadArgs, k,
                             [At(threadArgs, k) EXCEPT
                                !.reader = ReadPieceFile(k, At(pieceFiles, k)),
                                !.wpc = "cluster"])
          /\ UNCHANGED completionOrder
  /\ UNCHANGED <<thrown, docVars, loadVars, cdataVars>>
  /\ UNCHANGED <<pc, readerVars, fileVars, clusterVars, pieceFiles, cpc, ci, ok, baseIndex>>

\* mutant of WorkerCluster: the number of clusters is not recorded
WorkerClusterNoCount(k) ==
  /\ k < Len(threadArgs)
  /\ At(threadArgs, k).thread = "running"
  /\ At(threadArgs, k).wpc = "cluster"
  /\ \E nodes \in KdTrees(At(threadArgs, k).reader.vertexComponents) :
       LET c == CreateClusters(NewClusterer(At(threadArgs, k).reader.vertexComponents, nodes), 0)
       IN threadArgs' = Put(threadArgs, k,
                            [At(threadArgs, k) EXCEPT !.clusterer = c, !.wpc = "ok"])
  /\ UNCHANGED <<thrown, docVars, loadVars, cdataVars>>
  /\ UNCHANGED <<pc, readerVars, fileVars, clusterVars, pieceFiles, cpc, ci, ok, baseIndex,
                 completionOrder>>

\* readerThreadFunction: the clusterer created and createClusters run
WorkerCluster(k) ==
  /\ k < Len(threadArgs)
  /\ At(threadArgs, k).thread = "running"
  /\ At(threadArgs, k).wpc = "cluster"
  /\ \E nodes \in KdTrees(At(threadArgs, k).reader.vertexComponents) :
       LET c == CreateClusters(NewClusterer(At(threadArgs, k).reader.vertexComponents, nodes), 0)
       IN threadArgs' = Put(threadArgs, k,
                            [At(threadArgs, k) EXCEPT !.clusterer = c,
                                                      !.numVertices = c.numClusters,
                                                      !.wpc = "ok"])
  /\ UNCHANGED <<thrown, docVars, loadVars, cdataVars>>
  /\ UNCHANGED <<pc, readerVars, fileVars, clusterVars, pieceFiles, cpc, ci, ok, baseIndex,
                 completionOrder>>

\* mutant of WorkerOk: the thread reports through the coordinator's flag
WorkerOkShared(k) ==
  /\ k < Len(threadArgs)
  /\ At(threadArgs, k).thread = "running"
  /\ At(threadArgs, k).wpc = "ok"
  /\ threadArgs' = Put(threadArgs, k,
                       [At(threadArgs, k) EXCEPT !.ok = TRUE, !.thread = "terminated",
                                                 !.wpc = "end"])
  /\ ok' = ~ok
  /\ completionOrder' = Append(completionOrder, k)
  /\ UNCHANGED <<thrown, docVars, loadVars, cdataVars>>
  /\ UNCHANGED <<pc, readerVars, fileVars, clusterVars, pieceFiles, cpc, ci,
                 baseIndex>>

\* readerThreadFunction: ta->ok=true; return 0;
WorkerOk(k) ==
  /\ k < Len(threadArgs)
  /\ At(threadArgs, k).thread = "running"
  /\ At(threadArgs, k).wpc = "ok"
  /\ threadArgs' = Put(threadArgs, k,
                       [At(threadArgs, k) EXCEPT !.ok = TRUE, !.thread = "terminated",
                                                 !.wpc = "end"])
  /\ completionOrder' = Append(completionOrder, k)
  /\ UNCHANGED <<thrown, docVars, loadVars, cdataVars>>
  /\ UNCHANGED <<pc, readerVars, fileVars, clusterVars, pieceFiles, cpc, ci, ok, baseIndex>>

WorkerStep(k) == WorkerRead(k) \/ WorkerCluster(k) \/ WorkerOk(k)

\* mutant of JoinThread: the coordinator does not wait for the thread
JoinThreadNoWait ==
  /\ cpc = "join"
  /\ ci < NumPieces
  /\ ci' = ci + 1
  /\ UNCHANGED <<thrown, docVars, loadVars, cdataVars>>
  /\ UNCHANGED <<pc, readerVars, fileVars, clusterVars, pieceFiles, threadArgs, cpc, ok,
                 baseIndex, completionOrder>>

\* threadArgs[i].thread.join()
JoinThread ==
  /\ cpc = "join"
  /\ ci < NumPieces
  /\ At(threadArgs, ci).thread = "terminated"
  /\ ci' = ci + 1
  /\ UNCHANGED <<thrown, docVars, loadVars, cdataVars>>
  /\ UNCHANGED <<pc, readerVars, fileVars, clusterVars, pieceFiles, threadArgs, cpc, ok,
                 baseIndex, completionOrder>>

\* mutant of AllOk: one thread that did OK is enough
AllOkAny(ta) == \E k \in 1 .. Len(ta) : ta[k].ok

\* "Check if all threads did OK"
AllOk(ta) == \A k \in 1 .. Len(ta) : ta[k].ok

CheckOk ==
  /\ cpc = "join"
  /\ ci = NumPieces
  /\ ok' = AllOk(threadArgs)
  /\ cpc' = IF ok' THEN "merge" ELSE "cleanup"
  /\ ci' = 0
  /\ baseIndex' = 0
  /\ UNCHANGED <<thrown, docVars, loadVars, cdataVars>>
  /\ UNCHANGED <<pc, readerVars, fileVars, clusterVars, pieceFiles, threadArgs,
                 completionOrder>>

\* mutant of PieceToMerge: the pieces merged in the order their threads ended
PieceToMergeAsCompleted(k) == At(completionOrder, k)

\* the piece merged by iteration k of the combining loop
PieceToMerge(k) == k

\* "Collect all per-vertex data values for all merged vertices"
MergedVertexValues(ta, prop) ==
  LET nc == prop.numComponents
  IN [x \in 1 .. ta.numVertices * nc |->
        At(prop.components,
           GetOriginalVertexIndex(ta.clusterer, (x - 1) \div nc) * nc + ((x - 1) % nc))]

\* "Collect all per-cell data values for all cells"
MergedCellValues(ta, prop) ==
  [x \in 1 .. Len(ta.reader.cellTypes) * prop.numComponents |-> prop.components[x]]

\* mutant of SharedIndices: the piece's indices taken for shared ones
SharedIndicesNoBase(ta, base, garbage) ==
  RemapIndices(ta.clusterer, ta.reader.cellVertexIndices, garbage)

\* "Convert cell vertex indices into shared vertex space"
SharedIndices(ta, base, garbage) ==
  [x \in 1 .. Len(ta.reader.cellVertexIndices) |->
     base + RemapIndices(ta.clusterer, ta.reader.cellVertexIndices, garbage)[x]]

\* one iteration of the combining loop; a connectivity entry outside the
\* piece's cluster array reads memory that is no cluster
MergePiece ==
  /\ cpc = "merge"
  /\ ci < NumPieces
  /\ LET ta == At(threadArgs, PieceToMerge(ci))
     IN IF ta.clusterer = Null
        THEN /\ cpc' = "crashed"
             /\ pc' = "crashed"
             /\ UNCHANGED <<readerVars, ci, baseIndex>>
        ELSE \/ /\ \E garbage \in [OutOfRange(ta.clusterer, ta.reader.cellVertexIndices)
                                    -> GarbageIndices(ta.clusterer)] :
                     rCellVertexIndices' =
                       rCellVertexIndices \o SharedIndices(ta, baseIndex, garbage)
                /\ vertexComponents' =
                     vertexComponents \o RetrieveMergedVertexComponents(ta.clusterer)
                /\ rVertexProperties' =
                     [p \in 1 .. Len(rVertexProperties) |->
                        [rVertexProperties[p] EXCEPT !.components =
                           @ \o MergedVertexValues(ta, ta.reader.vertexProperties[p])]]
                /\ rCellTypes' = rCellTypes \o ta.reader.cellTypes
                /\ rCellProperties' =
                     [p \in 1 .. Len(rCellProperties) |->
                        [rCellProperties[p] EXCEPT !.components =
                           @ \o MergedCellValues(ta, ta.reader.cellProperties[p])]]
                /\ baseIndex' = baseIndex + ta.numVertices
                /\ ci' = ci + 1
                /\ cpc' = IF ci + 1 = NumPieces THEN "cleanup" ELSE cpc
                /\ pc' = pc
             \/ /\ OutOfRange(ta.clusterer, ta.reader.cellVertexIndices) # {}
                /\ cpc' = "crashed"
                /\ pc' = "crashed"
                /\ UNCHANGED <<readerVars, ci, baseIndex>>
  /\ UNCHANGED <<thrown, docVars, loadVars, cdataVars>>
  /\ UNCHANGED <<fileVars, clusterVars, pieceFiles, threadArgs, ok, completionOrder>>

\* "Delete the thread work assignments", then the error raised or the method left
Cleanup ==
  /\ cpc = "cleanup"
  /\ threadArgs' = [k \in 1 .. Len(threadArgs) |->
                      [threadArgs[k] EXCEPT !.reader = Null, !.clusterer = Null]]
  /\ IF ok
     THEN cpc' = "returned" /\ pc' = "read" /\ thrown' = thrown
     ELSE /\ cpc' = "error"
          /\ pc' = "failed"
          /\ thrown' = MakeStdErr("Error while reading piece files", <<>>)
  /\ UNCHANGED <<docVars, loadVars, cdataVars>>
  /\ UNCHANGED <<readerVars, fileVars, clusterVars, pieceFiles, ci, ok, baseIndex,
                 completionOrder>>

\* VTKFile::read after reader.read() has returned from a multi-piece
\* document: the clusterer created and createClusters run on the merged list
ClusterMerged ==
  /\ pc = "read"
  /\ cpc = "returned"
  /\ \E maxDist \in 0 .. MaxTol :
       LET nodes == BuildKdTree(vertexComponents, [k \in 1 .. N |-> k - 1], 0)
           c == CreateClusters(NewClusterer(vertexComponents, nodes), maxDist)
       IN /\ clusterer' = c
          /\ numVertices' = c.numClusters
  /\ pc' = "clustered"
  /\ UNCHANGED <<thrown, docVars, loadVars, cdataVars>>
  /\ UNCHANGED <<readerVars, vertices, vertexPropertySlices, cellVertexIndices,
                 cellTypes, cellPropertySlices, i, pending, parVars>>

Init == SingleInit \/ ParallelInit

Next ==
  \/ Construct
  \/ CreateClustersBegin
  \/ StartTraversal
  \/ Visit
  \/ MergeDone
  \/ AssignStep
  \/ CreateClustersReturn
  \/ Retrieve
  \/ CopyVertexProperties
  \/ Remap
  \/ CopyCells
  \/ StartThread
  \/ \E k \in Pieces : WorkerRead(k)
  \/ \E k \in Pieces : WorkerCluster(k)
  \/ \E k \in Pieces : WorkerOk(k)
  \/ JoinThread
  \/ CheckOk
  \/ MergePiece
  \/ Cleanup
  \/ ClusterMerged

Spec == Init /\ [][Next]_vars

TypeOK ==
  /\ pc \in {"read", "reading", "failed", "constructed", "merge", "traverse", "assign",
             "clustered", "properties", "remap", "cells", "done", "crashed"}
  /\ cpc \in {"idle", "start", "join", "merge", "cleanup", "returned", "error", "crashed"}

(* ---- properties ---- *)

\* createClusters has just returned in VTKFile::read
Clustered == pc = "clustered"
\* the cluster array exists and createClusters is not yet left behind
HasClusters == pc \in {"constructed", "merge", "traverse", "assign", "clustered"}
\* VTKFile::read has returned
ReadDone == pc = "done"
\* the combining loop is through and the work assignments are not yet deleted
Combined == cpc = "cleanup" /\ ok

RawIndices == 0 .. (N - 1)
MergedOf(k) == GetMergedVertexIndex(clusterer, k)
Point(k) == At(vertexComponents, k)
Near(a, b) == SqrDist(Point(a), Point(b)) <= clusterer.currentMaxDist2

\* raw vertices connected to S by chains of steps within the tolerance
RECURSIVE Reach(_)
Reach(S) ==
  LET T == S \cup {b \in RawIndices : \E a \in S : Near(a, b)}
  IN IF T = S THEN S ELSE Reach(T)

RECURSIVE SumCoord(_, _)
SumCoord(S, j) ==
  IF S = {} THEN 0
  ELSE LET k == CHOOSE x \in S : TRUE IN Point(k)[j] + SumCoord(S \ {k}, j)

\* index of the first value slice of property p (VTKFile::Property::firstSliceIndex)
RECURSIVE FirstSlice(_, _)
FirstSlice(props, p) ==
  IF p = 1 THEN 0 ELSE FirstSlice(props, p - 1) + props[p - 1].numComponents

\* getVertexPropertySlice(p, c)[m]
SliceAt(props, p, c, m) ==
  At(vertexPropertySlices, (FirstSlice(props, p) + c) * numVertices + m)

\* canonical vertices, cells and connectivity entries of the pieces before piece k
RECURSIVE VertexOffset(_, _)
VertexOffset(ta, k) ==
  IF k = 0 THEN 0 ELSE VertexOffset(ta, k - 1) + At(ta, k - 1).numVertices
RECURSIVE CellOffset(_, _)
CellOffset(ta, k) ==
  IF k = 0 THEN 0 ELSE CellOffset(ta, k - 1) + Len(At(ta, k - 1).reader.cellTypes)
RECURSIVE IndexOffset(_, _)
IndexOffset(ta, k) ==
  IF k = 0 THEN 0 ELSE IndexOffset(ta, k - 1) + Len(At(ta, k - 1).reader.cellVertexIndices)

\* C1: once createClusters has returned K for N raw vertices, every raw
\* vertex has a merged vertex index and the indices taken are exactly 0..K-1
C1_MergedIndexImage ==
  Clustered =>
    /\ numVertices = clusterer.numClusters
    /\ \A k \in RawIndices : At(clusterer.clusters, k).root \in RawIndices
    /\ {MergedOf(k) : k \in RawIndices} = 0 .. (numVertices - 1)

C1_Witness == Clustered /\ cpc = "idle" /\ N = 3 /\ numVertices = 2

\* C2: two raw vertices get the same merged index exactly if a chain of raw
\* vertices with consecutive distances within the tolerance connects them,
\* and no traversal misses a vertex within the tolerance of its query point
C2_SingleLinkage ==
  /\ Clustered =>
       \A a, b \in RawIndices : (MergedOf(a) = MergedOf(b)) <=> (b \in Reach({a}))
  /\ pc \in {"merge", "traverse"} =>
       \A k \in 0 .. (i - 1) : \A q \in RawIndices :
         Near(At(clusterer.vertices, k), q) =>
           FindRoot(clusterer.clusters, q)
             = FindRoot(clusterer.clusters, At(clusterer.vertices, k))
  /\ pc = "traverse" =>
       \A x \in 1 .. N :
         SqrDist(Point(clusterer.vertices[x]), clusterer.currentCenter)
             <= clusterer.currentMaxDist2 =>
           \/ \E y \in 1 .. Len(pending) : pending[y] = x - 1
           \/ FindRoot(clusterer.clusters, clusterer.vertices[x])
                = FindRoot(clusterer.clusters, clusterer.currentCluster)

\* three vertices in one cluster, two of them farther apart than the tolerance
C2_Witness ==
  /\ Clustered /\ cpc = "idle" /\ N = 3 /\ numVertices = 1
  /\ \E a, b \in RawIndices : ~Near(a, b)

Separated == \A a, b \in RawIndices : a # b => ~Near(a, b)

\* C3: if all raw vertices are pairwise farther apart than the tolerance,
\* nothing is merged: K = N, merged and original index of i are i, merged
\* position i is input point i, and the property values and the connectivity
\* entries that are raw vertex indices come out as they went in
C3_NoMergeIdentity ==
  ((Clustered \/ ReadDone) /\ Separated) =>
    /\ numVertices = N
    /\ \A k \in RawIndices :
         MergedOf(k) = k /\ GetOriginalVertexIndex(clusterer, k) = k
    /\ ReadDone =>
         \A k \in RawIndices : \A j \in 1 .. Dim :
           At(vertices, k)[j] = Quot(Point(k)[j], 1)
    /\ ReadDone =>
         \A p \in 1 .. Len(rVertexProperties) :
           \A c \in 0 .. (rVertexProperties[p].numComponents - 1) :
             \A k \in RawIndices :
               SliceAt(rVertexProperties, p, c, k)
                 = At(rVertexProperties[p].components,
                      k * rVertexProperties[p].numComponents + c)
    /\ ReadDone =>
         /\ Len(cellVertexIndices) = Len(rCellVertexIndices)
         /\ \A x \in 1 .. Len(rCellVertexIndices) :
              rCellVertexIndices[x] < N => cellVertexIndices[x] = rCellVertexIndices[x]

C3_Witness ==
  /\ pc = "done" /\ cpc = "idle" /\ Separated /\ N = 3
  /\ clusterer.currentMaxDist2 = 1
  /\ OutOfRange(clusterer, rCellVertexIndices) = {}

\* C4: at every step each root cluster carries the number of raw vertices of
\* its cluster as weight and the sum of their positions as accumulator, and
\* the merged position of a canonical index is that sum over that number
C4_CentroidIsAverage ==
  /\ HasClusters =>
       \A r \in RawIndices :
         At(clusterer.clusters, r).root = r =>
           LET members == {k \in RawIndices : FindRoot(clusterer.clusters, k) = r}
           IN /\ At(clusterer.clusters, r).centroidWeight = Cardinality(members)
              /\ \A j \in 1 .. Dim :
                   At(clusterer.clusters, r).centroidAcc[j] = SumCoord(members, j)
  /\ ReadDone =>
       /\ Len(vertices) = numVertices
       /\ \A m \in 0 .. (numVertices - 1) :
            LET members == {k \in RawIndices : MergedOf(k) = m}
            IN \A j \in 1 .. Dim :
                 At(vertices, m)[j] = Quot(SumCoord(members, j), Cardinality(members))

\* three vertices with different positions merged into one
C4_Witness ==
  /\ ReadDone /\ cpc = "idle" /\ N = 3 /\ numVertices = 1
  /\ At(vertices, 0)[1] = Quot(3, 3)
  /\ \A a, b \in RawIndices : a # b => Point(a) # Point(b)

\* C5: every vertex property value of canonical vertex m in the output, of
\* VTKFile::read and of the multi-piece merge, is the input value of the raw
\* vertex getOriginalVertexIndex(m), which is a member of cluster m
C5_RepresentativeCopy ==
  /\ ReadDone =>
       \A m \in 0 .. (numVertices - 1) :
         LET w == GetOriginalVertexIndex(clusterer, m)
         IN /\ w \in RawIndices
            /\ MergedOf(w) = m
            /\ \A p \in 1 .. Len(rVertexProperties) :
                 \A c \in 0 .. (rVertexProperties[p].numComponents - 1) :
                   SliceAt(rVertexProperties, p, c, m)
                     = At(rVertexProperties[p].components,
                          w * rVertexProperties[p].numComponents + c)
  /\ Combined =>
       \A k \in Pieces :
         LET ta == At(threadArgs, k)
         IN \A m \in 0 .. (ta.numVertices - 1) :
              LET w == GetOriginalVertexIndex(ta.clusterer, m)
              IN /\ w \in 0 .. (Len(ta.reader.vertexComponents) - 1)
                 /\ GetMergedVertexIndex(ta.clusterer, w) = m
                 /\ \A p \in 1 .. Len(rVertexProperties) :
                      LET nc == rVertexProperties[p].numComponents
                      IN \A c \in 0 .. (nc - 1) :
                           At(rVertexProperties[p].components,
                              (VertexOffset(threadArgs, k) + m) * nc + c)
                             = FileValue(k + 1, p, w, c)

\* a canonical vertex whose witness has another index, in a merged cluster
C5_Witness ==
  /\ pc = "done" /\ cpc = "idle" /\ numVertices < N
  /\ \E m \in 0 .. (numVertices - 1) : GetOriginalVertexIndex(clusterer, m) # m

\* C6: after a successful ingestion every entry of the output connectivity is
\* less than the number of canonical vertices, and no connectivity entry read
\* from a file is used as an index outside the cluster array
C6_ConnectivityInRange ==
  /\ pc = "remap" => OutOfRange(clusterer, rCellVertexIndices) = {}
  /\ pc = "done" => \A x \in 1 .. Len(cellVertexIndices) : cellVertexIndices[x] < numVertices
  /\ cpc = "merge" =>
       \A k \in Pieces :
         At(threadArgs, k).clusterer # Null =>
           OutOfRange(At(threadArgs, k).clusterer,
                      At(threadArgs, k).reader.cellVertexIndices) = {}
  /\ cpc = "returned" =>
       \A x \in 1 .. Len(rCellVertexIndices) : rCellVertexIndices[x] < N

\* C7: whatever the order in which the threads ended, the combined lists are
\* the pieces' canonical vertices, vertex property values, cell types and cell
\* property values in piece-list order, and a connectivity entry of piece k is
\* its canonical index in the piece plus the canonical counts of pieces 0..k-1
C7_PieceListOrder ==
  Combined =>
    /\ Len(completionOrder) = NumPieces
    /\ Len(vertexComponents) = VertexOffset(threadArgs, NumPieces)
    /\ Len(rCellTypes) = CellOffset(threadArgs, NumPieces)
    /\ Len(rCellVertexIndices) = IndexOffset(threadArgs, NumPieces)
    /\ \A k \in Pieces :
         LET ta == At(threadArgs, k)
             file == At(pieceFiles, k)
             vo == VertexOffset(threadArgs, k)
             co == CellOffset(threadArgs, k)
             io == IndexOffset(threadArgs, k)
         IN /\ \A m \in 0 .. (ta.numVertices - 1) :
                 LET w == GetOriginalVertexIndex(ta.clusterer, m)
                 IN /\ At(vertexComponents, vo + m) = At(file.points, w)
                    /\ \A p \in 1 .. Len(rVertexProperties) :
                         LET nc == rVertexProperties[p].numComponents
                         IN /\ Len(rVertexProperties[p].components)
                                 = VertexOffset(threadArgs, NumPieces) * nc
                            /\ \A c \in 0 .. (nc - 1) :
                                 At(rVertexProperties[p].components, (vo + m) * nc + c)
                                   = At(ta.reader.vertexProperties[p].components, w * nc + c)
            /\ \A x \in 0 .. (Len(ta.reader.cellTypes) - 1) :
                 /\ At(rCellTypes, co + x) = At(ta.reader.cellTypes, x)
                 /\ \A p \in 1 .. Len(rCellProperties) :
                      LET nc == rCellProperties[p].numComponents
                      IN /\ Len(rCellProperties[p].components)
                              = CellOffset(threadArgs, NumPieces) * nc
                         /\ \A c \in 0 .. (nc - 1) :
                              At(rCellProperties[p].components, (co + x) * nc + c)
                                = At(ta.reader.cellProperties[p].components, x * nc + c)
            /\ \A x \in 0 .. (Len(ta.reader.cellVertexIndices) - 1) :
                 At(ta.reader.cellVertexIndices, x) < Len(file.points) =>
                   At(rCellVertexIndices, io + x)
                     = vo + GetMergedVertexIndex(ta.clusterer,
                                                 At(ta.reader.cellVertexIndices, x))

\* the last piece's thread ended first, and the pieces differ in size
C7_Witness ==
  /\ Combined
  /\ At(completionOrder, 0) = NumPieces - 1
  /\ At(threadArgs, 0).numVertices # At(threadArgs, NumPieces - 1).numVertices
  /\ At(threadArgs, 0).numVertices < Len(At(pieceFiles, 0).points)
  /\ \E x \in 1 .. Len(rCellVertexIndices) : rCellVertexIndices[x] >= At(threadArgs, 0).numVertices

\* the canonical vertices of all pieces together
PieceVertexTotal == VertexOffset(threadArgs, NumPieces)

\* VTKFile::read has clustered the list a multi-piece document was combined into
MultiPieceClustered == cpc = "returned" /\ Clustered

\* C8 as stated: the mesh made from a multi-piece document has as many
\* vertices as the pieces have canonical vertices together
C8_CountIsPieceTotal ==
  MultiPieceClustered => numVertices = PieceVertexTotal

\* C8 amended: the coordinator's list is the concatenation of the pieces'
\* canonical index spaces, piece k owning the indices from the total of the
\* pieces before it, and VTKFile::read clusters that list once more, so the
\* final count is the total exactly if no two list entries are within the
\* tolerance and smaller otherwise
C8_ConcatenatedThenClustered ==
  /\ Combined =>
       /\ Len(vertexComponents) = PieceVertexTotal
       /\ \A k \in Pieces :
            LET ta == At(threadArgs, k)
                vo == VertexOffset(threadArgs, k)
            IN /\ \A a \in 0 .. (Len(ta.reader.vertexComponents) - 1) :
                    /\ GetMergedVertexIndex(ta.clusterer, a) < ta.numVertices
                    /\ At(vertexComponents, vo + GetMergedVertexIndex(ta.clusterer, a))
                         = At(ta.reader.vertexComponents, a)
               /\ \A x \in 0 .. (Len(ta.reader.cellVertexIndices) - 1) :
                    At(ta.reader.cellVertexIndices, x) < Len(ta.reader.vertexComponents) =>
                      /\ At(rCellVertexIndices, IndexOffset(threadArgs, k) + x) >= vo
                      /\ At(rCellVertexIndices, IndexOffset(threadArgs, k) + x)
                           < vo + ta.numVertices
  /\ MultiPieceClustered =>
       /\ N = PieceVertexTotal
       /\ numVertices <= PieceVertexTotal
       /\ (numVertices = PieceVertexTotal) <=> Separated
       /\ \A a, b \in RawIndices : Near(a, b) => MergedOf(a) = MergedOf(b)

\* two pieces hold the same point and the final mesh has it once
C8_Witness ==
  /\ cpc = "returned" /\ pc = "done"
  /\ numVertices < PieceVertexTotal
  /\ clusterer.currentMaxDist2 = 0
  /\ At(threadArgs, 0).numVertices = Len(At(pieceFiles, 0).points)
  /\ At(threadArgs, 1).numVertices = Len(At(pieceFiles, 1).points)

\* thread k is started and has not ended
Running(k) == k < Len(threadArgs) /\ At(threadArgs, k).thread = "running"
\* thread k has ended
Terminated(k) == k < Len(threadArgs) /\ At(threadArgs, k).thread = "terminated"

\* the coordinator is past the joins only when every thread has ended, and a
\* thread ends OK exactly if its own piece file is readable
JoinBarrier ==
  /\ cpc \in {"merge", "cleanup", "returned", "error", "crashed"} =>
       \A k \in Pieces : Terminated(k)
  /\ cpc = "join" => \A k \in 0 .. (ci - 1) : Terminated(k)
  /\ \A k \in Pieces :
       Terminated(k) => (At(threadArgs, k).ok <=> ~At(pieceFiles, k).bad)

\* a step that changes the work assignment of a running thread is that
\* thread's own step: it leaves the other threads' assignments as they are,
\* and a running thread is never at its end
SiblingsUntouched ==
  \A j \in Pieces :
    Running(j) =>
      /\ At(threadArgs, j).wpc \in {"read", "cluster", "ok"}
      /\ At(threadArgs', j) # At(threadArgs, j) =>
           /\ WorkerStep(j)
           /\ \A k \in Pieces \ {j} : At(threadArgs', k) = At(threadArgs, k)

\* C9: the coordinator neither merges nor raises the error before every
\* started thread has ended, and no step ends or alters a running thread but
\* its own, so that a thread ends OK exactly if its own piece file is readable
C9_JoinBeforeMerge == []JoinBarrier /\ [][SiblingsUntouched]_vars

\* a thread failed first, another ended OK after it, and the coordinator is
\* past the joins
C9_Witness ==
  /\ cpc = "cleanup"
  /\ Len(completionOrder) = NumPieces
  /\ ~At(threadArgs, At(completionOrder, 0)).ok
  /\ At(threadArgs, At(completionOrder, NumPieces - 1)).ok

\* a piece file that cannot be read
SomePieceBad == \E k \in 1 .. Len(pieceFiles) : pieceFiles[k].bad

\* C10: if a piece's thread fails, nothing is combined: the coordinator's
\* vertex, connectivity, cell type and property value lists stay empty, the
\* method is never left normally, and after the joins it goes to the error
C10_NoPartialMerge ==
  SomePieceBad =>
    /\ cpc \in {"start", "join", "cleanup", "error"}
    /\ pc \in {"reading", "failed"}
    /\ cpc = "cleanup" => ~ok
    /\ vertexComponents = <<>>
    /\ rCellVertexIndices = <<>>
    /\ rCellTypes = <<>>
    /\ \A p \in 1 .. Len(rVertexProperties) : rVertexProperties[p].components = <<>>
    /\ \A p \in 1 .. Len(rCellProperties) : rCellProperties[p].components = <<>>

\* the error is raised although a piece was read and clustered
C10_Witness ==
  /\ cpc = "error" /\ pc = "failed"
  /\ \E k \in Pieces : At(threadArgs, k).ok /\ At(threadArgs, k).numVertices > 0
  /\ \E k \in Pieces : ~At(threadArgs, k).ok

(* ---- C11 ---- *)
\* the pieces whose thread did not end OK
FailedPieces == {k \in Pieces : ~At(threadArgs, k).ok}

\* the pieces an error value identifies: those whose index the
\* arguments formatted into the message carry
PiecesNamed(err) ==
  {k \in Pieces : \E a \in 1 .. Len(err.args) : err.args[a] = k}

\* C11: the error the coordinator raises when piece workers failed carries
\* exactly the set of pieces whose worker did not succeed
C11_ErrorNamesFailedPieces ==
  cpc = "error" => PiecesNamed(thrown) = FailedPieces

(* ---- C12 ---- *)
\* the variables of the coordinator thread
coordinatorVars == <<pc, readerVars, fileVars, clusterVars, pieceFiles, cpc, ci, ok,
                     baseIndex, thrown>>

\* the coordinator is at a statement that reads the threads' results: the
\* check of the ok flags, the combination, or the deletion of the assignments
ReadsResults ==
  \/ cpc = "join" /\ ci = NumPieces
  \/ cpc \in {"merge", "cleanup"}

\* the coordinator reads a work assignment only after that thread has ended
\* and has been joined
ReadsAfterJoin == ReadsResults => \A k \in Pieces : Terminated(k)

\* a step in which the work assignment of a running thread changes writes
\* no other thread's assignment and no variable of the coordinator
WorkerIsolated ==
  \A k \in Pieces :
    (Running(k) /\ At(threadArgs', k) # At(threadArgs, k)) =>
      /\ UNCHANGED coordinatorVars
      /\ \A j \in Pieces \ {k} : At(threadArgs', j) = At(threadArgs, j)

\* C12: piece workers share no mutable state: a worker writes only its own
\* work assignment, and the coordinator reads the assignments only after
\* the joins
C12_NoSharedState == []ReadsAfterJoin /\ [][WorkerIsolated]_vars

\* both threads are running, one of them has read its piece and the other
\* has not
C12_Witness ==
  /\ \A k \in Pieces : Running(k)
  /\ \E j, k \in Pieces : /\ At(threadArgs, j).wpc = "cluster"
                          /\ At(threadArgs, k).wpc = "read"

(* ---- XML documents ---- *)

\* an element written with an opening and a closing tag: its tag name, its
\* attributes as name/value pairs in document order, its child elements in
\* document order and its character data; child elements precede the
\* character data
Elem(tag, attrs, children, cdata) ==
  [tag |-> tag, attrs |-> attrs, children |-> children, cdata |-> cdata]

\* a non-negative integer written in a file: wraps * 2^32 + rest, with
\* 0 <= rest < 2^32
Wide(wraps, rest) == [wraps |-> wraps, rest |-> rest]

\* Index(strtoul(...)) and Index(data->read<Misc::UInt64>()): the conversion
\* to the 32-bit Index keeps the value modulo 2^32
IndexOf(w) == w.rest

\* ArrayScalarParam(value) of readDataArray for the buffer being filled:
\* CellType is an 8-bit unsigned integer, so the value is kept modulo 2^8;
\* the Index and Scalar values of the documents lie in the range both types
\* hold exactly
Convert(kind, v) == IF kind = "CellType" THEN v % 256 ELSE v

ConvertAll(kind, values) == [k \in 1 .. Len(values) |-> Convert(kind, values[k])]

\* the state a reading method works on: the reader's buffers and the
\* exception in flight
Throw(S, what, args) == [S EXCEPT !.thrown = MakeStdErr(what, args)]
Failed(S) == S.thrown # NoError

\* a type name is written as its letters and its digits, "UInt8" as
\* [prefix |-> "UInt", size |-> 8]
ParseComponentType(typeName) ==
  LET size == typeName.size
      prefix == typeName.prefix
  IN IF size \notin {8, 16, 32, 64}
     THEN [thrown |-> MakeStdErr("Invalid type size %u", <<size>>)]
     ELSE IF prefix = "Int"
     THEN [thrown |-> NoError, integerType |-> TRUE, unsignedType |-> FALSE,
           typeSize |-> size \div 8]
     ELSE IF prefix = "UInt"
     THEN [thrown |-> NoError, integerType |-> TRUE, unsignedType |-> TRUE,
           typeSize |-> size \div 8]
     ELSE IF prefix = "Float"
     THEN IF size < 32
          THEN [thrown |-> MakeStdErr("Invalid floating-point type size %u", <<size>>)]
          ELSE [thrown |-> NoError, integerType |-> FALSE, unsignedType |-> FALSE,
                typeSize |-> size \div 8]
     ELSE [thrown |-> MakeStdErr("Invalid type name %s", <<typeName>>)]

\* the DataArray header before any attribute is read
NewDataArray ==
  [thrown |-> NoError, name |-> "", componentType |-> Null, numValues |-> 0,
   numComponents |-> 1, format |-> ""]

RECURSIVE ParseDataArrayHeaderFrom(_, _, _)
ParseDataArrayHeaderFrom(attrs, k, result) ==
  IF k > Len(attrs) \/ result.thrown # NoError THEN result
  ELSE LET name == attrs[k][1]
           value == attrs[k][2]
           next ==
             IF name = "Name" THEN [result EXCEPT !.name = value]
             ELSE IF name = "type"
             THEN LET t == ParseComponentType(value)
                  IN IF t.thrown # NoError
                     THEN [result EXCEPT !.thrown = t.thrown]
                     ELSE [result EXCEPT !.componentType = t]
             ELSE IF name = "NumberOfTuples" THEN [result EXCEPT !.numValues = IndexOf(value)]
             ELSE IF name = "NumberOfComponents"
             THEN [result EXCEPT !.numComponents = IndexOf(value)]
             ELSE IF name = "format" THEN [result EXCEPT !.format = value]
             ELSE result
       IN ParseDataArrayHeaderFrom(attrs, k + 1, next)

ParseDataArrayHeader(e) == ParseDataArrayHeaderFrom(e.attrs, 1, NewDataArray)

\* VTKCDataParser: readUnsignedInteger accepts digits only, readInteger and
\* readFloat a sign as well; readDataArray reads the values of an unsigned
\* type with readInteger and those of a signed type with readUnsignedInteger
Readable(componentType, v) ==
  (componentType.integerType /\ ~componentType.unsignedType) => v >= 0

\* the number of leading values of the character data the parser reads
\* before one makes it throw
RECURSIVE NumReadable(_, _, _)
NumReadable(componentType, cdata, k) ==
  IF k > Len(cdata) \/ ~Readable(componentType, cdata[k]) THEN k - 1
  ELSE NumReadable(componentType, cdata, k + 1)

\* a loop that reads nothing per turn while data is left never ends: the
\* call does not return, which the reading methods pass on to the step of
\* read that made the call as they pass on an exception
Endless == [what |-> "endless loop", args |-> <<>>]

\* readDataArray, ascii: numComponents values are read and appended per
\* turn of the loop until the character data is exhausted; a value that
\* cannot be read, and the end of the character data within a tuple, make
\* the parser throw after the values before it are appended
ReadAscii(dataArray, cdata, kind, array) ==
  LET n == NumReadable(dataArray.componentType, cdata, 1)
      appended == array \o ConvertAll(kind, SubSeq(cdata, 1, n))
  IN IF dataArray.numComponents = 0
     THEN [thrown |-> IF cdata = <<>> THEN NoError ELSE Endless, array |-> array]
     ELSE IF n < Len(cdata)
     THEN [thrown |-> MakeStdErr("CharacterDataParser: Invalid character", <<>>),
           array |-> appended]
     ELSE IF Len(cdata) % dataArray.numComponents # 0
     THEN [thrown |-> MakeStdErr("CharacterDataParser: Invalid character", <<>>),
           array |-> appended]
     ELSE [thrown |-> NoError, array |-> appended]

\* readDataArray, binary: cdata holds the header's integers, each written
\* in headerIntSize bytes, and the values of the data block
ReadBinary(dataArray, cdata, kind, array, compressed) ==
  LET header == cdata.header
      numBlocks == IF compressed THEN IndexOf(header[1]) ELSE 1
      blockSizes == IF compressed THEN IndexOf(header[2]) ELSE IndexOf(header[1])
      lastBlockSize == IF compressed THEN IndexOf(header[3]) ELSE blockSizes
  IN IF compressed /\ Len(header) < 3 + numBlocks
     THEN [thrown |-> MakeStdErr("IO::File: read past end of file", <<>>), array |-> array]
     ELSE IF numBlocks # 1 \/ lastBlockSize # blockSizes
     THEN [thrown |-> MakeStdErr("Multi-block binary data not supported", <<>>),
           array |-> array]
     ELSE IF dataArray.numComponents = 0
     THEN [thrown |-> IF cdata.values = <<>> THEN NoError ELSE Endless, array |-> array]
     ELSE IF Len(cdata.values) % dataArray.numComponents # 0
     THEN [thrown |-> MakeStdErr("IO::File: read past end of file", <<>>),
           array |-> array \o ConvertAll(kind, cdata.values)]
     ELSE [thrown |-> NoError, array |-> array \o ConvertAll(kind, cdata.values)]

\* FileScalarParam components[9] of readBinaryDataArray
StagingSize == 9

\* the most components data.read(components, numComponents) of
\* readBinaryDataArray writes to components in one call on the DataArray
\* element e, 0 if readDataArray does not get there
Staged(dataArray, e, compressed) ==
  IF e.children # <<>> \/ dataArray.format # "binary" THEN 0
  ELSE LET header == e.cdata.header
           numBlocks == IF compressed THEN IndexOf(header[1]) ELSE 1
           blockSizes == IF compressed THEN IndexOf(header[2]) ELSE IndexOf(header[1])
           lastBlockSize == IF compressed THEN IndexOf(header[3]) ELSE blockSizes
       IN IF compressed /\ Len(header) < 3 + numBlocks THEN 0
          ELSE IF numBlocks # 1 \/ lastBlockSize # blockSizes THEN 0
          ELSE IF Len(e.cdata.values) < dataArray.numComponents THEN Len(e.cdata.values)
          ELSE dataArray.numComponents

\* the reader having made that call: staged is the most components any
\* call has written to components at once
Stage(r, dataArray, e) ==
  [r EXCEPT !.staged = IF Staged(dataArray, e, r.compressed) > @
                       THEN Staged(dataArray, e, r.compressed) ELSE @]

\* readDataArray(dataArray, array) on the DataArray element e
ReadDataArray(dataArray, e, kind, array, compressed) ==
  IF e.children # <<>>
  THEN [thrown |-> MakeStdErr("Empty DataArray element", <<>>), array |-> array]
  ELSE IF dataArray.format = "ascii" THEN ReadAscii(dataArray, e.cdata, kind, array)
  ELSE IF dataArray.format = "binary"
  THEN ReadBinary(dataArray, e.cdata, kind, array, compressed)
  ELSE IF dataArray.format = "appended"
  THEN [thrown |-> MakeStdErr("\"appended\" data array format not supported", <<>>),
        array |-> array]
  ELSE [thrown |-> MakeStdErr("Invalid data array format %s", <<dataArray.format>>),
        array |-> array]

(* ---- VTKFileReader: the elements of a Piece ---- *)

\* the reader after construction: empty buffers, compressed(false),
\* headerIntSize(4)
NewReader ==
  [gridType |-> "", compressed |-> FALSE, headerIntSize |-> 4,
   vertexComponents |-> <<>>, cellVertexIndices |-> <<>>, cellTypes |-> <<>>,
   vertexProperties |-> <<>>, cellProperties |-> <<>>, staged |-> 0]

\* processPoints: the loop over the children of the Points element e from
\* child k on, and the check after it
RECURSIVE ProcessPointsFrom(_, _, _, _, _)
ProcessPointsFrom(S, e, k, havePoints, numPoints) ==
  IF Failed(S) THEN S
  ELSE IF k > Len(e.children)
  THEN IF ~havePoints
       THEN Throw(S, "No DataArray element in Points element", <<>>)
       ELSE S
  ELSE LET child == e.children[k]
       IN IF ~havePoints /\ child.tag = "DataArray"
          THEN LET dataArray == ParseDataArrayHeader(child)
               IN IF dataArray.thrown # NoError
                  THEN [S EXCEPT !.thrown = dataArray.thrown]
                  ELSE IF dataArray.numComponents # 3
                  THEN Throw(S, "Invalid number of components %u in vertex positions",
                             <<dataArray.numComponents>>)
                  ELSE LET vertexComponentsSize == Len(S.reader.vertexComponents)
                           r == ReadDataArray(dataArray, child, "Scalar",
                                              S.reader.vertexComponents, S.reader.compressed)
                           S1 == [S EXCEPT !.reader = [Stage(@, dataArray, child) EXCEPT
                                                         !.vertexComponents = r.array],
                                           !.thrown = r.thrown]
                       IN IF Failed(S1) THEN S1
                          ELSE IF Len(r.array) - vertexComponentsSize # numPoints * 3
                          THEN Throw(S1, "Wrong number of vertices in DataArray element", <<>>)
                          ELSE ProcessPointsFrom(S1, e, k + 1, TRUE, numPoints)
          ELSE ProcessPointsFrom(S, e, k + 1, havePoints, numPoints)

ProcessPoints(S, e, numPoints) == ProcessPointsFrom(S, e, 1, FALSE, numPoints)

\* "Check if all cells are linear or tri-quadratic hexahedra": the stored
\* cell types from position from + 1 on that are neither
NonHexahedral(types, from) == {t \in from + 1 .. Len(types) : types[t] # 12 /\ types[t] # 72}

\* processCells: the loop over the children of the Cells element e from
\* child k on, and the check after it
RECURSIVE ProcessCellsFrom(_, _, _, _, _, _)
ProcessCellsFrom(S, e, k, haveConnectivity, haveTypes, numCells) ==
  IF Failed(S) THEN S
  ELSE IF k > Len(e.children)
  THEN IF ~haveConnectivity \/ ~haveTypes
       THEN Throw(S, "Missing DataArray element(s) in Cells element", <<>>)
       ELSE S
  ELSE LET child == e.children[k]
           dataArray == ParseDataArrayHeader(child)
       IN IF child.tag # "DataArray"
          THEN ProcessCellsFrom(S, e, k + 1, haveConnectivity, haveTypes, numCells)
          ELSE IF dataArray.thrown # NoError THEN [S EXCEPT !.thrown = dataArray.thrown]
          ELSE IF ~haveConnectivity /\ dataArray.name = "connectivity"
          THEN LET r == ReadDataArray(dataArray, child, "Index",
                                      S.reader.cellVertexIndices, S.reader.compressed)
                   S1 == [S EXCEPT !.reader = [Stage(@, dataArray, child) EXCEPT
                                                 !.cellVertexIndices = r.array],
                                   !.thrown = r.thrown]
               IN ProcessCellsFrom(S1, e, k + 1, TRUE, haveTypes, numCells)
          ELSE IF ~haveTypes /\ dataArray.name = "types"
          THEN LET cellTypesSize == Len(S.reader.cellTypes)
                   r == ReadDataArray(dataArray, child, "CellType",
                                      S.reader.cellTypes, S.reader.compressed)
                   S1 == [S EXCEPT !.reader = [Stage(@, dataArray, child) EXCEPT
                                                 !.cellTypes = r.array],
                                   !.thrown = r.thrown]
                   bad == NonHexahedral(r.array, cellTypesSize)
               IN IF Failed(S1) THEN S1
                  ELSE IF Len(r.array) - cellTypesSize # numCells
                  THEN Throw(S1, "Wrong number of cells in \"types\" DataArray element", <<>>)
                  ELSE IF bad # {}
                  THEN Throw(S1, "Non-hexahedral cell type %u in grid",
                             <<r.array[CHOOSE t \in bad : \A u \in bad : t <= u]>>)
                  ELSE ProcessCellsFrom(S1, e, k + 1, haveConnectivity, TRUE, numCells)
          ELSE ProcessCellsFrom(S, e, k + 1, haveConnectivity, haveTypes, numCells)

ProcessCells(S, e, numCells) == ProcessCellsFrom(S, e, 1, FALSE, FALSE, numCells)

\* processPointOrCellData with an empty property list: a new property is
\* created for each DataArray child of e from child k on
RECURSIVE CreatePropertiesFrom(_, _, _, _, _)
CreatePropertiesFrom(S, list, e, k, numValues) ==
  IF Failed(S) \/ k > Len(e.children) THEN S
  ELSE LET child == e.children[k]
           dataArray == ParseDataArrayHeader(child)
       IN IF child.tag # "DataArray" THEN CreatePropertiesFrom(S, list, e, k + 1, numValues)
          ELSE IF dataArray.thrown # NoError THEN [S EXCEPT !.thrown = dataArray.thrown]
          ELSE LET r == ReadDataArray(dataArray, child, "Scalar", <<>>, S.reader.compressed)
                   newProperty == [name |-> dataArray.name,
                                   numComponents |-> dataArray.numComponents,
                                   components |-> r.array]
                   S1 == [S EXCEPT !.reader = Stage(@, dataArray, child)]
               IN IF r.thrown # NoError THEN [S1 EXCEPT !.thrown = r.thrown]
                  ELSE IF Len(r.array) # numValues * dataArray.numComponents
                  THEN Throw(S1, "Wrong number of values in DataArray element for property %s",
                             <<dataArray.name>>)
                  ELSE CreatePropertiesFrom(
                         [S1 EXCEPT !.reader[list] = Append(@, newProperty)],
                         list, e, k + 1, numValues)

\* the position of the first property of the given name, 0 if there is none
FindProperty(properties, name) ==
  LET found == {p \in 1 .. Len(properties) : properties[p].name = name}
  IN IF found = {} THEN 0 ELSE CHOOSE p \in found : \A q \in found : p <= q

\* processPointOrCellData with a populated property list: each DataArray
\* child of e from child k on is appended to the property of its name, and
\* every property must have been read in the end
RECURSIVE AppendPropertiesFrom(_, _, _, _, _, _, _)
AppendPropertiesFrom(S, list, e, k, numValues, readProperties, elementName) ==
  IF Failed(S) THEN S
  ELSE IF k > Len(e.children)
  THEN IF \E p \in 1 .. Len(readProperties) : ~readProperties[p]
       THEN Throw(S, "Missing DataArray element(s) in %s element", <<elementName>>)
       ELSE S
  ELSE LET child == e.children[k]
           dataArray == ParseDataArrayHeader(child)
           p == FindProperty(S.reader[list], dataArray.name)
       IN IF child.tag # "DataArray"
          THEN AppendPropertiesFrom(S, list, e, k + 1, numValues, readProperties, elementName)
          ELSE IF dataArray.thrown # NoError THEN [S EXCEPT !.thrown = dataArray.thrown]
          ELSE IF p = 0
          THEN Throw(S, "Property %s not found in property list", <<dataArray.name>>)
          ELSE IF readProperties[p]
          THEN Throw(S, "Multiple data arrays for property %s", <<dataArray.name>>)
          ELSE IF dataArray.numComponents # S.reader[list][p].numComponents
          THEN Throw(S, "Property %s and data array have mismatching numbers of components",
                     <<dataArray.name>>)
          ELSE LET propertyComponentsSize == Len(S.reader[list][p].components)
                   r == ReadDataArray(dataArray, child, "Scalar",
                                      S.reader[list][p].components, S.reader.compressed)
                   S1 == [S EXCEPT !.reader = [Stage(@, dataArray, child) EXCEPT
                                                 ![list][p].components = r.array],
                                   !.thrown = r.thrown]
               IN IF Failed(S1) THEN S1
                  ELSE IF Len(r.array) - propertyComponentsSize
                            # numValues * dataArray.numComponents
                  THEN Throw(S1, "Wrong number of values in DataArray element for property %s",
                             <<dataArray.name>>)
                  ELSE AppendPropertiesFrom(S1, list, e, k + 1, numValues,
                                            [readProperties EXCEPT ![p] = TRUE], elementName)

\* processPointOrCellData(properties, numValues, methodName, elementName):
\* list names the reader's property list
ProcessPointOrCellData(S, list, e, numValues, elementName) ==
  IF S.reader[list] = <<>>
  THEN CreatePropertiesFrom(S, list, e, 1, numValues)
  ELSE AppendPropertiesFrom(S, list, e, 1, numValues,
                            [p \in 1 .. Len(S.reader[list]) |-> FALSE], elementName)

(* ---- VTKFileReader::processUnstructuredGrid ---- *)

\* the value the attribute loop of a Piece element leaves in numVertices or
\* numCells: that of the last attribute of the name, 0 without one
RECURSIVE PieceCountFrom(_, _, _, _)
PieceCountFrom(attrs, name, k, result) ==
  IF k > Len(attrs) THEN result
  ELSE PieceCountFrom(attrs, name, k + 1,
                      IF attrs[k][1] = name THEN IndexOf(attrs[k][2]) ELSE result)

\* the loop over the children of the Piece element e from child k on, and
\* the checks after it
RECURSIVE ProcessPieceFrom(_, _, _, _, _, _)
ProcessPieceFrom(S, e, k, have, numPoints, numCells) ==
  IF Failed(S) THEN S
  ELSE IF k > Len(e.children)
  THEN IF ~have.points \/ ~have.cells
       THEN Throw(S, "No Points or Cells element in Piece element", <<>>)
       ELSE IF ~have.pointData /\ ~have.cellData
       THEN Throw(S, "No PointData or CellData elements in Piece element", <<>>)
       ELSE S
  ELSE LET child == e.children[k]
       IN IF ~have.points /\ child.tag = "Points"
          THEN ProcessPieceFrom(ProcessPoints(S, child, numPoints), e, k + 1,
                                [have EXCEPT !.points = TRUE], numPoints, numCells)
          ELSE IF ~have.pointData /\ child.tag = "PointData"
          THEN ProcessPieceFrom(
                 ProcessPointOrCellData(S, "vertexProperties", child, numPoints, "PointData"),
                 e, k + 1, [have EXCEPT !.pointData = TRUE], numPoints, numCells)
          ELSE IF ~have.cells /\ child.tag = "Cells"
          THEN ProcessPieceFrom(ProcessCells(S, child, numCells), e, k + 1,
                                [have EXCEPT !.cells = TRUE], numPoints, numCells)
          ELSE IF ~have.cellData /\ child.tag = "CellData"
          THEN ProcessPieceFrom(
                 ProcessPointOrCellData(S, "cellProperties", child, numCells, "CellData"),
                 e, k + 1, [have EXCEPT !.cellData = TRUE], numPoints, numCells)
          ELSE ProcessPieceFrom(S, e, k + 1, have, numPoints, numCells)

\* mutant of OffsetIndices: the entries of the earlier pieces are offset too
OffsetIndicesAll(cvi, cellBaseIndex, vertexBaseIndex) ==
  [k \in 1 .. Len(cvi) |-> cvi[k] + vertexBaseIndex]

\* "Offset the just-read cell vertex indices"
OffsetIndices(cvi, cellBaseIndex, vertexBaseIndex) ==
  [k \in 1 .. Len(cvi) |-> IF k > cellBaseIndex THEN cvi[k] + vertexBaseIndex ELSE cvi[k]]

\* processUnstructuredGrid: one Piece element
ProcessPiece(S, e) ==
  LET numPoints == PieceCountFrom(e.attrs, "NumberOfPoints", 1, 0)
      numCells == PieceCountFrom(e.attrs, "NumberOfCells", 1, 0)
      vertexBaseIndex == Len(S.reader.vertexComponents) \div 3
      cellBaseIndex == Len(S.reader.cellVertexIndices)
      S1 == ProcessPieceFrom(S, e, 1,
                             [points |-> FALSE, pointData |-> FALSE, cells |-> FALSE,
                              cellData |-> FALSE],
                             numPoints, numCells)
  IN IF Failed(S1) THEN S1
     ELSE [S1 EXCEPT !.reader.cellVertexIndices =
                       OffsetIndices(@, cellBaseIndex, vertexBaseIndex)]

\* processUnstructuredGrid: one child of the grid element
ProcessGridChild(S, child) ==
  IF child.tag = "Piece" THEN ProcessPiece(S, child) ELSE S

(* ---- VTKFileReader::read ---- *)

\* the loop over the attributes of the root element from attribute k on
RECURSIVE ReadRootAttributesFrom(_, _, _)
ReadRootAttributesFrom(S, attrs, k) ==
  IF Failed(S) \/ k > Len(attrs) THEN S
  ELSE LET name == attrs[k][1]
           value == attrs[k][2]
           next ==
             IF name = "type" THEN [S EXCEPT !.reader.gridType = value]
             ELSE IF name = "version"
             THEN IF value # "0.1"
                  THEN Throw(S, "Unsupported VTK file version %s", <<value>>)
                  ELSE S
             ELSE IF name = "compressor"
             THEN IF value = "vtkZLibDataCompressor"
                  THEN [S EXCEPT !.reader.compressed = TRUE]
                  ELSE Throw(S, "Unsupported binary data compressor %s", <<value>>)
             ELSE IF name = "byte_order"
             THEN IF value \in {"LittleEndian", "BigEndian"}
                  THEN S
                  ELSE Throw(S, "Unsupported binary data byte order %s", <<value>>)
             ELSE IF name = "header-type"
             THEN IF value = "UInt32" THEN [S EXCEPT !.reader.headerIntSize = 4]
                  ELSE IF value = "UInt64" THEN [S EXCEPT !.reader.headerIntSize = 8]
                  ELSE Throw(S, "Unsupported header type %s", <<value>>)
             ELSE S
       IN ReadRootAttributesFrom(next, attrs, k + 1)

\* read: the VTKFile element found and its attributes read
ReadRootAttributes(S, d) ==
  IF d.tag # "VTKFile" THEN Throw(S, "No VTKFile element found", <<>>)
  ELSE ReadRootAttributesFrom(S, d.attrs, 1)

(* ---- the documents read ---- *)
MaxDocPieces == 2
MaxDocPoints == 2

\* an element of a name the reader does not know, with a subtree that
\* holds an element of a name it does know
UnknownElem ==
  Elem("FieldData", << <<"Name", "meta">> >>,
       << Elem("DataArray", << <<"Name", "types">> >>, <<>>, <<99>>) >>, <<>>)

\* an ascii DataArray element
AsciiArray(name, typeName, numComponents, values) ==
  Elem("DataArray",
       << <<"type", typeName>>, <<"Name", name>>,
          <<"NumberOfComponents", Wide(0, numComponents)>>, <<"format", "ascii">> >>,
       <<>>, values)

Float32 == [prefix |-> "Float", size |-> 32]
Int32 == [prefix |-> "Int", size |-> 32]
UInt8 == [prefix |-> "UInt", size |-> 8]

\* the ways in which one Piece of a document departs from the plain one
PieceKinds ==
  {"plain",
   "unknownInPiece", "unknownInPoints", "unknownInCells", "unknownInPointData",
   "unknownInCellData", "unknownInDataArray",
   "morePointsDeclared", "wrappedPointsDeclared", "moreCellsDeclared",
   "wrappedCellsDeclared", "shortProperty",
   "noPointData", "noCellData",
   "tuplesDeclared", "tuplesExceeded", "connectivityShort",
   "propertyUnknown", "propertyTwice", "propertyComponents", "propertyAbsent",
   "propertyWrappedComponents", "propertyNegative",
   "componentsZero", "binaryComponentsZero", "cellsFirst", "binaryComponentsTen",
   "type72", "type11", "type268", "typeNegative",
   "binaryOneBlock", "binaryTwoBlocks", "binaryLastDiffers", "binaryWrappedBlocks",
   "binaryWrappedLast", "binaryUncompressed"}

\* the ways in which the document around the pieces departs from the plain one
DocKinds == {"versionOther", "versionAbsent", "unknownInRoot", "unknownInGrid", "parallel"}

BinaryKinds == {"binaryOneBlock", "binaryTwoBlocks", "binaryLastDiffers",
                "binaryWrappedBlocks", "binaryWrappedLast", "binaryUncompressed"}
WideHeaderKinds == {"binaryWrappedBlocks", "binaryWrappedLast"}

\* the file's values: coordinate c of raw vertex j of piece p, the values
\* of the vertex property and of the cell property, the connectivity
DocPoints(p, np) == [k \in 1 .. 3 * np |-> IF (k - 1) % 3 = 0 THEN p
                                           ELSE IF (k - 1) % 3 = 1 THEN (k - 1) \div 3
                                           ELSE 0]
DocPointData(p, n) == [k \in 1 .. n |-> 100 * p + k - 1]
DocCellData(p) == <<200 * p>>
DocConnectivity(np, len) == [k \in 1 .. len |-> (k - 1) % np]

\* the block header of a binary DataArray holding a data block of size
\* bytes: numBlocks, blockSizes, lastBlockSize and the compressed sizes
BinaryHeader(kind, size) ==
  IF kind = "binaryOneBlock" THEN <<Wide(0, 1), Wide(0, size), Wide(0, size), Wide(0, size)>>
  ELSE IF kind = "binaryTwoBlocks"
  THEN <<Wide(0, 2), Wide(0, size), Wide(0, size), Wide(0, size), Wide(0, size)>>
  ELSE IF kind = "binaryLastDiffers"
  THEN <<Wide(0, 1), Wide(0, size), Wide(0, size - 1), Wide(0, size)>>
  ELSE IF kind = "binaryWrappedBlocks"
  THEN <<Wide(1, 1), Wide(0, size), Wide(0, size), Wide(0, size)>>
  ELSE IF kind = "binaryWrappedLast"
  THEN <<Wide(0, 1), Wide(0, size), Wide(1, size), Wide(0, size)>>
  ELSE <<Wide(0, size)>>

\* the Points DataArray of piece p
PointsArray(kind, p, np) ==
  IF kind \in BinaryKinds
  THEN Elem("DataArray",
            << <<"type", Float32>>, <<"Name", "Points">>,
               <<"NumberOfComponents", Wide(0, 3)>>, <<"format", "binary">> >>,
            <<>>,
            [header |-> BinaryHeader(kind, 12 * np), values |-> DocPoints(p, np)])
  ELSE [AsciiArray("Points", Float32, 3, DocPoints(p, np))
          EXCEPT !.children = IF kind = "unknownInDataArray" THEN <<UnknownElem>> ELSE <<>>]

\* the integer written in the types array of piece p
TypeWritten(kind) ==
  IF kind = "type72" THEN 72
  ELSE IF kind = "type11" THEN 11
  ELSE IF kind = "type268" THEN 268
  ELSE IF kind = "typeNegative" THEN -244
  ELSE LinearHexahedron

ConnectivityArray(kind, np) ==
  LET array == AsciiArray("connectivity", Int32, 1,
                          DocConnectivity(np, IF kind = "type72" THEN 27
                                              ELSE IF kind = "tuplesExceeded" THEN 16
                                              ELSE IF kind = "connectivityShort" THEN 7
                                              ELSE 8))
  IN IF kind \in {"tuplesDeclared", "tuplesExceeded"}
     THEN [array EXCEPT !.attrs = Append(@, <<"NumberOfTuples", Wide(0, 8)>>)]
     ELSE array

Unknown(kind, level) == IF kind = level THEN <<UnknownElem>> ELSE <<>>

\* a binary DataArray element of a vertex property, its data in one
\* uncompressed block
BinaryProperty(numComponents, values) ==
  Elem("DataArray",
       << <<"type", Float32>>, <<"Name", "T">>,
          <<"NumberOfComponents", Wide(0, numComponents)>>, <<"format", "binary">> >>,
       <<>>,
       [header |-> <<Wide(0, 4 * Len(values))>>, values |-> values])

\* the DataArray elements of the PointData element of piece p
PointDataArrays(kind, p, np) ==
  LET T == AsciiArray("T", Float32, 1, DocPointData(p, np))
  IN IF kind = "componentsZero"
     THEN << [T EXCEPT !.attrs[3] = <<"NumberOfComponents", Wide(0, 0)>>] >>
     ELSE IF kind = "binaryComponentsZero"
     THEN << BinaryProperty(0, DocPointData(p, np)) >>
     ELSE IF kind = "binaryComponentsTen"
     THEN << BinaryProperty(10, DocPointData(p, 10 * np)) >>
     ELSE IF kind = "shortProperty"
     THEN << AsciiArray("T", Float32, 1, DocPointData(p, np - 1)) >>
     ELSE IF kind = "propertyUnknown"
     THEN << T, AsciiArray("U", Float32, 1, DocPointData(p, np)) >>
     ELSE IF kind = "propertyTwice" THEN << T, T >>
     ELSE IF kind = "propertyComponents"
     THEN << AsciiArray("T", Float32, 2, DocPointData(p, 2 * np)) >>
     ELSE IF kind = "propertyAbsent" THEN <<>>
     ELSE IF kind = "propertyNegative"
     THEN << AsciiArray("T", Int32, 1, [k \in 1 .. np |-> 0 - DocPointData(p, np)[k]]) >>
     ELSE IF kind = "propertyWrappedComponents"
     THEN << [T EXCEPT !.attrs[3] = <<"NumberOfComponents", Wide(1, 1)>>] >>
     ELSE << T >>

\* Piece p of a document, with np raw vertices and one cell
PieceElem(kind, p, np) ==
  Elem("Piece",
       << <<"NumberOfPoints",
            IF kind = "morePointsDeclared" THEN Wide(0, np + 1)
            ELSE IF kind = "wrappedPointsDeclared" THEN Wide(1, np)
            ELSE Wide(0, np)>>,
          <<"NumberOfCells",
            IF kind = "moreCellsDeclared" THEN Wide(0, 2)
            ELSE IF kind = "wrappedCellsDeclared" THEN Wide(1, 1)
            ELSE Wide(0, 1)>> >>,
       Unknown(kind, "unknownInPiece")
       \o (IF kind = "noPointData" THEN <<>>
           ELSE << Elem("PointData", <<>>,
                        Unknown(kind, "unknownInPointData")
                        \o PointDataArrays(kind, p, np),
                        <<>>) >>)
       \o (IF kind = "noCellData" THEN <<>>
           ELSE << Elem("CellData", <<>>,
                        Unknown(kind, "unknownInCellData")
                        \o << AsciiArray("C", Float32, 1, DocCellData(p)) >>,
                        <<>>) >>)
       \o (LET points == Elem("Points", <<>>,
                              Unknown(kind, "unknownInPoints")
                              \o << PointsArray(kind, p, np) >>, <<>>)
               cells == Elem("Cells", <<>>,
                             Unknown(kind, "unknownInCells")
                             \o << ConnectivityArray(kind, np),
                                   AsciiArray("types", UInt8, 1, <<TypeWritten(kind)>>) >>,
                             <<>>)
           IN IF kind = "cellsFirst" THEN <<cells, points>> ELSE <<points, cells>>),
       <<>>)

\* the document with n pieces of np raw vertices each that departs from
\* the plain one in the given way, in piece at if the way is one of a Piece
Document(kind, n, np, at) ==
  LET gridType == IF kind = "parallel" THEN "PUnstructuredGrid" ELSE "UnstructuredGrid"
  IN Elem("VTKFile",
          << <<"type", gridType>> >>
          \o (IF kind = "versionAbsent" THEN <<>>
              ELSE << <<"version", IF kind = "versionOther" THEN "1.0" ELSE "0.1">> >>)
          \o << <<"byte_order", "LittleEndian">> >>
          \o (IF kind \in BinaryKinds \ {"binaryUncompressed"}
              THEN << <<"compressor", "vtkZLibDataCompressor">> >> ELSE <<>>)
          \o (IF kind \in WideHeaderKinds THEN << <<"header-type", "UInt64">> >> ELSE <<>>),
          Unknown(kind, "unknownInRoot")
          \o << Elem(gridType, <<>>,
                     Unknown(kind, "unknownInGrid")
                     \o [p \in 1 .. n |->
                           PieceElem(IF p = at /\ kind \in PieceKinds THEN kind ELSE "plain",
                                     p, np)],
                     <<>>) >>,
          <<>>)

\* the property shapes a piece reader is given before it reads
\* (addVertexProperty, addCellProperty)
DeclaredReader ==
  [NewReader EXCEPT
     !.vertexProperties = << [name |-> "T", numComponents |-> 1, components |-> <<>>] >>,
     !.cellProperties = << [name |-> "C", numComponents |-> 1, components |-> <<>>] >>]

\* neither VTKFile::read nor a multi-piece ingestion is running
FileIdle ==
  /\ pc = "idle"
  /\ vertexComponents = <<>>
  /\ rCellVertexIndices = <<>>
  /\ rCellTypes = <<>>
  /\ rVertexProperties = <<>>
  /\ rCellProperties = <<>>
  /\ numVertices = 0
  /\ vertices = <<>>
  /\ vertexPropertySlices = <<>>
  /\ cellVertexIndices = <<>>
  /\ cellTypes = <<>>
  /\ cellPropertySlices = <<>>
  /\ clusterer = Null
  /\ i = 0
  /\ pending = <<>>
  /\ pieceFiles = <<>>
  /\ threadArgs = <<>>
  /\ cpc = "idle"
  /\ ci = 0
  /\ ok = TRUE
  /\ baseIndex = 0
  /\ completionOrder = <<>>

otherVars == <<pc, readerVars, fileVars, clusterVars, parVars, cdataVars>>

\* a reader has been constructed on a document, given property shapes or
\* not, and read is called
ReadInit ==
  /\ \E kind \in PieceKinds \cup DocKinds, n \in 1 .. MaxDocPieces, np \in 1 .. MaxDocPoints :
       \E at \in 1 .. n : doc = Document(kind, n, np, at)
  /\ reader \in {NewReader, DeclaredReader}
  /\ reader0 = reader
  /\ rpc = "attributes"
  /\ rootCursor = 0
  /\ gridCursor = 0
  /\ haveGrid = FALSE
  /\ thrown = NoError
  /\ LoadIdle
  /\ CDataIdle
  /\ FileIdle

\* the child of the root element the loop of read is at
RootChild == doc.children[rootCursor + 1]
\* the grid element being processed and the child its loop is at
Grid == doc.children[rootCursor + 1]
GridChild == Grid.children[gridCursor + 1]

\* read: the root element found and its attributes read
ReadAttributes ==
  /\ rpc = "attributes"
  /\ LET S == ReadRootAttributes([reader |-> reader, thrown |-> thrown], doc)
     IN /\ reader' = S.reader
        /\ thrown' = S.thrown
        /\ rpc' = IF Failed(S) THEN "failed" ELSE "root"
  /\ UNCHANGED <<doc, rootCursor, gridCursor, haveGrid, reader0, loadVars, otherVars>>

\* read: the grid element of the document's type is entered
EnterGrid ==
  /\ rpc = "root"
  /\ rootCursor < Len(doc.children)
  /\ ~haveGrid /\ RootChild.tag = reader.gridType
  /\ IF reader.gridType = "UnstructuredGrid"
     THEN rpc' = "grid" /\ thrown' = thrown
     ELSE IF reader.gridType = "PUnstructuredGrid"
     THEN rpc' = "parallel" /\ thrown' = thrown
     ELSE /\ rpc' = "failed"
          /\ thrown' = MakeStdErr("Unsupported grid type %s", <<reader.gridType>>)
  /\ gridCursor' = 0
  /\ UNCHANGED <<doc, rootCursor, haveGrid, reader, reader0, loadVars, otherVars>>

\* read: vtk.skipElement(tagName) on any other child of the root element
SkipRootChild ==
  /\ rpc = "root"
  /\ rootCursor < Len(doc.children)
  /\ ~(~haveGrid /\ RootChild.tag = reader.gridType)
  /\ rootCursor' = rootCursor + 1
  /\ UNCHANGED <<doc, rpc, gridCursor, haveGrid, reader, reader0, thrown, loadVars, otherVars>>

\* processUnstructuredGrid after processPiece has ended with S: the reader
\* is as processPiece left it and an exception ends the read; a write beyond
\* components[9] is undefined behaviour, after which the read goes on as if
\* the array were large enough or the process ends
PieceOutcome(S) ==
  /\ reader' = S.reader
  /\ \/ /\ thrown' = IF S.thrown = Endless THEN thrown ELSE S.thrown
        /\ rpc' = IF S.thrown = Endless THEN "looping"
                  ELSE IF Failed(S) THEN "failed" ELSE rpc
     \/ /\ S.reader.staged > StagingSize
        /\ thrown' = thrown
        /\ rpc' = "crashed"

\* processUnstructuredGrid: a Piece element is read
ReadPiece ==
  /\ rpc = "grid"
  /\ gridCursor < Len(Grid.children)
  /\ GridChild.tag = "Piece"
  /\ PieceOutcome(ProcessGridChild([reader |-> reader, thrown |-> thrown], GridChild))
  /\ gridCursor' = gridCursor + 1
  /\ UNCHANGED <<doc, rootCursor, haveGrid, reader0, loadVars, otherVars>>

\* mutant of SkipGridChild: a child of an unknown name is an error
SkipGridChildThrow ==
  /\ rpc = "grid"
  /\ gridCursor < Len(Grid.children)
  /\ GridChild.tag # "Piece"
  /\ rpc' = "failed"
  /\ thrown' = MakeStdErr("Unknown element %s", <<GridChild.tag>>)
  /\ UNCHANGED <<doc, gridCursor, rootCursor, haveGrid, reader, reader0, loadVars, otherVars>>

\* processUnstructuredGrid: vtk.skipElement(tagName) on any other child
SkipGridChild ==
  /\ rpc = "grid"
  /\ gridCursor < Len(Grid.children)
  /\ GridChild.tag # "Piece"
  /\ gridCursor' = gridCursor + 1
  /\ UNCHANGED <<doc, rpc, rootCursor, haveGrid, reader, reader0, thrown, loadVars, otherVars>>

\* processUnstructuredGrid returns: haveGrid=true
LeaveGrid ==
  /\ rpc = "grid"
  /\ gridCursor = Len(Grid.children)
  /\ haveGrid' = TRUE
  /\ rootCursor' = rootCursor + 1
  /\ rpc' = "root"
  /\ UNCHANGED <<doc, gridCursor, reader, reader0, thrown, loadVars, otherVars>>

\* read: "Check for errors" after the last child of the root element
LeaveRoot ==
  /\ rpc = "root"
  /\ rootCursor = Len(doc.children)
  /\ IF ~haveGrid
     THEN /\ rpc' = "failed"
          /\ thrown' = MakeStdErr("No %s element found", <<reader.gridType>>)
     ELSE rpc' = "done" /\ thrown' = thrown
  /\ UNCHANGED <<doc, rootCursor, gridCursor, haveGrid, reader, reader0, loadVars, otherVars>>

ReadNext ==
  \/ ReadAttributes
  \/ EnterGrid
  \/ SkipRootChild
  \/ ReadPiece
  \/ SkipGridChild
  \/ LeaveGrid
  \/ LeaveRoot

ReadSpec == ReadInit /\ [][ReadNext]_vars

\* read has returned without an exception
ReadOk == rpc = "done"
\* read has ended, by returning or by an exception
ReadEnded == rpc \in {"done", "failed"}

(* ---- what a document says ---- *)
\* element e carries the attribute name with value v
Declares(e, name, v) ==
  \E k \in 1 .. Len(e.attrs) : e.attrs[k][1] = name /\ e.attrs[k][2] = v

\* the value of the attribute name of e, which carries it
AttrOf(e, name) ==
  e.attrs[CHOOSE k \in 1 .. Len(e.attrs) : e.attrs[k][1] = name][2]

ChildrenTagged(e, tag) == SelectSeq(e.children, LAMBDA c : c.tag = tag)

\* the Piece elements of the document's grid element, in document order
DocPieces(d) ==
  LET grids == ChildrenTagged(d, "UnstructuredGrid")
  IN IF grids = <<>> THEN <<>> ELSE ChildrenTagged(grids[1], "Piece")

\* the DataArray children of the child element tag of piece e
ArraysIn(e, tag) ==
  LET parents == ChildrenTagged(e, tag)
  IN IF parents = <<>> THEN <<>> ELSE ChildrenTagged(parents[1], "DataArray")

ArraysNamed(e, tag, name) ==
  SelectSeq(ArraysIn(e, tag), LAMBDA a : Declares(a, "Name", name))

\* the values a DataArray element holds
ValuesOf(a) == IF Declares(a, "format", "binary") THEN a.cdata.values ELSE a.cdata

(* ---- C13 ---- *)
\* C13: read returns without an exception only for a document whose root
\* element declares version "0.1", and a document that does not is rejected
\* before any child of the root element is read
C13_VersionRequired ==
  /\ ReadOk => Declares(doc, "version", "0.1")
  /\ (rpc # "idle" /\ ~Declares(doc, "version", "0.1")) =>
       rpc \in {"attributes", "failed"} /\ rootCursor = 0

(* ---- C14 ---- *)
\* the values of the first DataArray called name under the child tag of
\* each of the pieces from piece k on, one after the other
RECURSIVE ValuesFrom(_, _, _, _)
ValuesFrom(pieces, tag, name, k) ==
  IF k > Len(pieces) THEN <<>>
  ELSE ValuesOf(ArraysNamed(pieces[k], tag, name)[1]) \o ValuesFrom(pieces, tag, name, k + 1)

\* the connectivity of the pieces from piece k on, each piece's entries
\* offset by the number of raw vertices of the pieces before it
RECURSIVE ConnectivityFrom(_, _)
ConnectivityFrom(pieces, k) ==
  IF k > Len(pieces) THEN <<>>
  ELSE LET base == Len(ValuesFrom(SubSeq(pieces, 1, k - 1), "Points", "Points", 1)) \div 3
           cvi == ValuesOf(ArraysNamed(pieces[k], "Cells", "connectivity")[1])
       IN [j \in 1 .. Len(cvi) |-> cvi[j] + base] \o ConnectivityFrom(pieces, k + 1)

\* the vertices, connectivity, cell types and properties that the arrays
\* of a document of plain pieces hold
Holds(d) ==
  LET pieces == DocPieces(d)
  IN [vertexComponents |-> ValuesFrom(pieces, "Points", "Points", 1),
      cellVertexIndices |-> ConnectivityFrom(pieces, 1),
      cellTypes |-> ValuesFrom(pieces, "Cells", "types", 1),
      vertexProperties |-> << [name |-> "T", numComponents |-> 1,
                               components |-> ValuesFrom(pieces, "PointData", "T", 1)] >>,
      cellProperties |-> << [name |-> "C", numComponents |-> 1,
                             components |-> ValuesFrom(pieces, "CellData", "C", 1)] >>]

\* the vertices, connectivity, cell types and properties the reader holds
Ingested(r) ==
  [vertexComponents |-> r.vertexComponents, cellVertexIndices |-> r.cellVertexIndices,
   cellTypes |-> r.cellTypes, vertexProperties |-> r.vertexProperties,
   cellProperties |-> r.cellProperties]

\* the levels at which an element of an unknown name is inserted: as a
\* child of an element whose children are elements
ElementLevels == {"unknownInRoot", "unknownInGrid", "unknownInPiece", "unknownInPoints",
                  "unknownInCells", "unknownInPointData", "unknownInCellData"}

\* the read of the plain document with an unknown element inserted at one
\* of the levels ends without an error, holding what the plain document holds
SkippedAt(levels) ==
  \A kind \in levels, n \in 1 .. MaxDocPieces, np \in 1 .. MaxDocPoints :
    \A at \in 1 .. n :
      (ReadEnded /\ doc = Document(kind, n, np, at)) =>
        /\ ReadOk
        /\ thrown = NoError
        /\ Ingested(reader) = Holds(Document("plain", n, np, at))

\* C14 as stated: an element of an unknown name inserted at any level,
\* that of a DataArray included, causes no error and leaves the ingested
\* vertices, connectivity, cell types and properties as they are without it
C14_SkippedAtAnyLevel == SkippedAt(ElementLevels \cup {"unknownInDataArray"})

\* C14 as amended: an element of an unknown name inserted as a child of the
\* root, grid, Piece, Points, Cells, PointData or CellData element causes
\* no error and leaves the ingested vertices, connectivity, cell types and
\* properties as they are without it (and as the plain document holds
\* them); inserted in a DataArray element it makes the read fail
C14_SkippedOutsideDataArray ==
  /\ SkippedAt(ElementLevels \cup {"plain"})
  /\ \A n \in 1 .. MaxDocPieces, np \in 1 .. MaxDocPoints :
       \A at \in 1 .. n :
         (ReadEnded /\ doc = Document("unknownInDataArray", n, np, at)) =>
           rpc = "failed" /\ thrown.what = "Empty DataArray element"

\* a document with an unknown element in the Points element of its last
\* piece has been read to the end
C14_Witness ==
  /\ ReadOk
  /\ doc = Document("unknownInPoints", MaxDocPieces, MaxDocPoints, MaxDocPieces)
  /\ Len(reader.vertexComponents) = 3 * MaxDocPieces * MaxDocPoints

(* ---- C15 ---- *)
\* m is exactly the number written as w, times c
Exactly(w, c, m) == w.wraps = 0 /\ m = w.rest * c

\* each array among arrays holds exactly the number of values written as
\* w, times its number of components
ArraysExact(arrays, w) ==
  \A a \in 1 .. Len(arrays) :
    Exactly(w, AttrOf(arrays[a], "NumberOfComponents").rest, Len(ValuesOf(arrays[a])))

\* the Points array, the types array and the PointData and CellData arrays
\* of piece e hold exactly as many values as the piece declares
CountsExact(e) ==
  /\ ArraysExact(SubSeq(ArraysIn(e, "Points"), 1, 1), AttrOf(e, "NumberOfPoints"))
  /\ ArraysExact(ArraysNamed(e, "Cells", "types"), AttrOf(e, "NumberOfCells"))
  /\ ArraysExact(ArraysIn(e, "PointData"), AttrOf(e, "NumberOfPoints"))
  /\ ArraysExact(ArraysIn(e, "CellData"), AttrOf(e, "NumberOfCells"))

\* C15: no document in which the Points array, the types array or a
\* PointData or CellData array of a Piece holds another number of values
\* than the Piece declares is read without an error
C15_CountMismatchFatal ==
  ReadOk => \A k \in 1 .. Len(DocPieces(doc)) : CountsExact(DocPieces(doc)[k])

(* ---- C16 ---- *)
\* every property of the list holds one value per component for each of
\* the count entities
PropertiesCover(properties, count) ==
  \A p \in 1 .. Len(properties) :
    Len(properties[p].components) = count * properties[p].numComponents

\* C16: after read has returned without an exception, each vertex property
\* holds (raw vertices read) x numComponents values and each cell property
\* (cells read) x numComponents values, for a fresh reader and for a reader
\* given property shapes beforehand
C16_PropertyLengths ==
  ReadOk =>
    /\ PropertiesCover(reader.vertexProperties, Len(reader.vertexComponents) \div 3)
    /\ PropertiesCover(reader.cellProperties, Len(reader.cellTypes))

(* ---- C17 ---- *)
\* the number of values to be read from the ascii DataArray a: tuples x
\* components if it declares NumberOfTuples, else all its character data holds
ToConsume(a) ==
  IF \E k \in 1 .. Len(a.attrs) : a.attrs[k][1] = "NumberOfTuples"
  THEN AttrOf(a, "NumberOfTuples").rest * AttrOf(a, "NumberOfComponents").rest
  ELSE Len(a.cdata)

\* the sum of ToConsume over the connectivity arrays of the pieces from
\* piece k on
RECURSIVE ConnectivityToConsume(_, _)
ConnectivityToConsume(pieces, k) ==
  IF k > Len(pieces) THEN 0
  ELSE ToConsume(ArraysNamed(pieces[k], "Cells", "connectivity")[1])
       + ConnectivityToConsume(pieces, k + 1)

\* C17: from an ascii DataArray that declares NumberOfTuples = T with C
\* components the reader takes exactly T x C values, and all values of the
\* character data only if NumberOfTuples is not declared; stated of the
\* connectivity arrays, whose values all go to cellVertexIndices
C17_TuplesBoundValues ==
  ReadOk =>
    Len(reader.cellVertexIndices) - Len(reader0.cellVertexIndices)
      = ConnectivityToConsume(DocPieces(doc), 1)

(* ---- C18 ---- *)
\* the block header of the binary DataArray a describes another number of
\* blocks than 1, or a last block of another size than the uniform one
\* (the header of uncompressed data holds the size of its one block only)
MultiBlock(a) ==
  LET header == a.cdata.header
  IN Len(header) >= 3 /\ (header[1] # Wide(0, 1) \/ header[3] # header[2])

\* C18: a binary DataArray whose block header describes another number of
\* blocks than 1 or a last block that differs from the uniform size makes
\* the read fail with "Multi-block binary data not supported", and none of
\* its values is appended: the vertex buffer holds the values of the
\* pieces before it only
C18_MultiBlockFatal ==
  \A k \in 1 .. Len(DocPieces(doc)) :
    LET a == ArraysIn(DocPieces(doc)[k], "Points")[1]
    IN (ReadEnded /\ Declares(a, "format", "binary") /\ MultiBlock(a)) =>
         /\ rpc = "failed"
         /\ thrown.what = "Multi-block binary data not supported"
         /\ reader.vertexComponents
              = ValuesFrom(SubSeq(DocPieces(doc), 1, k - 1), "Points", "Points", 1)

(* ---- C19 ---- *)
\* the reader's code for a tri-quadratic hexahedron
TriQuadraticHexahedron == 72

\* C19: after read has returned without an exception every integer written
\* in a types array is 12 or 72, and the stored cell types are these integers
C19_CellTypesClosed ==
  ReadOk =>
    LET written == ValuesFrom(DocPieces(doc), "Cells", "types", 1)
    IN /\ \A k \in 1 .. Len(written) :
            written[k] \in {LinearHexahedron, TriQuadraticHexahedron}
       /\ reader.cellTypes = reader0.cellTypes \o written

(* ---- UnstructuredHexahedralVTKXML::load: the cells ---- *)
MaxLoadCells == 3

\* "VTK's cube vertex counting order"
vertexOrderFile == <<0, 1, 2, 3, 4, 5, 6, 7>>
vertexOrder == <<0, 1, 3, 2, 4, 5, 7, 6>>

\* the connectivity entries a cell of the given type has in the file
RunLength(type) == IF type = LinearHexahedron THEN 8 ELSE 27

\* the number of connectivity entries of the first n cells
RECURSIVE RunStart(_, _)
RunStart(types, n) ==
  IF n = 0 THEN 0 ELSE RunStart(types, n - 1) + RunLength(types[n])

\* a file as VTKFile::read leaves it: hexahedra of the two types, the entry
\* at offset k of the connectivity being vertex index 10 + k
LoadFiles ==
  {[cellTypes |-> types,
    cellVertexIndices |-> [k \in 1 .. RunStart(types, Len(types)) |-> 10 + k - 1]] :
     types \in {t \in SeqsUpTo({LinearHexahedron, TriQuadraticHexahedron}, MaxLoadCells) :
                  Len(t) >= 1}}

\* vtkFile.read has returned and the vertices are copied
LoadInit ==
  /\ vtkFile \in LoadFiles
  /\ lpc = "cell"
  /\ loadCi = 0
  /\ cviPtr = 0
  /\ cellVertices = <<>>
  /\ corner = 0
  /\ dataSetCells = <<>>
  /\ thrown = NoError
  /\ DocIdle
  /\ CDataIdle
  /\ FileIdle

\* the cell loop is entered for cell ci: DS::VertexID cellVertices[8]
BeginCell ==
  /\ lpc = "cell"
  /\ loadCi < Len(vtkFile.cellTypes)
  /\ cellVertices' = [k \in 1 .. 8 |-> Uninit]
  /\ corner' = 0
  /\ lpc' = "corners"
  /\ UNCHANGED <<vtkFile, loadCi, cviPtr, dataSetCells, thrown, docVars, otherVars>>

\* cellVertices[vertexOrder[i]]=cviPtr[i]
PlaceCorner ==
  /\ lpc = "corners"
  /\ corner < 8
  /\ cellVertices' = Put(cellVertices, At(vertexOrder, corner),
                         At(vtkFile.cellVertexIndices, cviPtr + corner))
  /\ corner' = corner + 1
  /\ UNCHANGED <<lpc, vtkFile, loadCi, cviPtr, dataSetCells, thrown, docVars, otherVars>>

\* dataSet.addCell(cellVertices), then "Go to the next cell"
AddCell ==
  /\ lpc = "corners"
  /\ corner = 8
  /\ dataSetCells' = Append(dataSetCells, cellVertices)
  /\ cviPtr' = IF At(vtkFile.cellTypes, loadCi) = 12 THEN cviPtr + 8 ELSE cviPtr + 27
  /\ loadCi' = loadCi + 1
  /\ lpc' = "cell"
  /\ UNCHANGED <<vtkFile, cellVertices, corner, thrown, docVars, otherVars>>

\* the cell loop ends
CellsDone ==
  /\ lpc = "cell"
  /\ loadCi = Len(vtkFile.cellTypes)
  /\ lpc' = "done"
  /\ UNCHANGED <<vtkFile, loadCi, cviPtr, cellVertices, corner, dataSetCells, thrown,
                 docVars, otherVars>>

LoadNext ==
  \/ BeginCell
  \/ PlaceCorner
  \/ AddCell
  \/ CellsDone

LoadSpec == LoadInit /\ [][LoadNext]_vars

(* ---- C20 ---- *)
\* the output slot of file corner c: corners 2 and 3 and corners 6 and 7
\* change places, the others keep theirs
Slot(c) ==
  IF c = 2 THEN 3 ELSE IF c = 3 THEN 2 ELSE IF c = 6 THEN 7 ELSE IF c = 7 THEN 6 ELSE c

\* C20: each cell added to the data set holds, at slot P[c], the entry c of
\* the first 8 entries of that cell's connectivity run, P being
\* {0,1,3,2,4,5,7,6}, and the run of a cell starts 8 entries after that of
\* a linear hexahedron before it and 27 after that of a tri-quadratic one
C20_CornerOrderAndStride ==
  /\ lpc \in {"cell", "done"} => cviPtr = RunStart(vtkFile.cellTypes, loadCi)
  /\ \A n \in 1 .. Len(dataSetCells) : \A c \in 0 .. 7 :
       At(dataSetCells[n], Slot(c))
         = At(vtkFile.cellVertexIndices, RunStart(vtkFile.cellTypes, n - 1) + c)

\* a linear hexahedron has been added after a tri-quadratic one
C20_Witness ==
  /\ lpc = "done"
  /\ Len(dataSetCells) >= 2
  /\ At(vtkFile.cellTypes, 0) = TriQuadraticHexahedron
  /\ At(vtkFile.cellTypes, 1) = LinearHexahedron
  /\ At(dataSetCells[2], 3) = At(vtkFile.cellVertexIndices, 27 + 2)

(* ---- C21 ---- *)
\* what processParallelUnstructuredGrid has allocated and not deleted: the
\* array threadArgs (new ThreadArgument[...]) as long as it holds its
\* elements, and the reader and the clusterer each element points to
ArrayAllocated == threadArgs # <<>>
ReadersAllocated == {k \in Pieces : At(threadArgs, k).reader # Null}
ClusterersAllocated == {k \in Pieces : At(threadArgs, k).clusterer # Null}

\* C21: when the error of a failed multi-piece ingestion reaches the
\* caller, every piece reader, every clusterer and the array of work
\* assignments has been released
C21_NoLeakOnError ==
  cpc = "error" =>
    /\ ReadersAllocated = {}
    /\ ClusterersAllocated = {}
    /\ ~ArrayAllocated

(* ---- C22 ---- *)
\* C22: after a successful read the connectivity holds, for the cells read,
\* 8 entries per linear hexahedron and 27 per tri-quadratic hexahedron, so
\* that the run of the last cell ends where the array ends
C22_ConnectivityMatchesTypes ==
  ReadOk =>
    Len(reader.cellVertexIndices) = RunStart(reader.cellTypes, Len(reader.cellTypes))

(* ---- C23 ---- *)
\* the DataArray children of the child element tag of piece e are, for each
\* property of the list, exactly one array of its name declaring its number
\* of components, and no array of another name
Conforms(e, tag, properties) ==
  /\ \A p \in 1 .. Len(properties) :
       LET named == ArraysNamed(e, tag, properties[p].name)
       IN /\ Len(named) = 1
          /\ Declares(named[1], "NumberOfComponents", Wide(0, properties[p].numComponents))
  /\ \A a \in 1 .. Len(ArraysIn(e, tag)) :
       \E p \in 1 .. Len(properties) :
         Declares(ArraysIn(e, tag)[a], "Name", properties[p].name)

\* each property of the list after is the property before followed by the
\* values of the array of its name in the child element tag of piece e
Appended(e, tag, before, after) ==
  /\ Len(after) = Len(before)
  /\ \A p \in 1 .. Len(before) :
       /\ after[p].name = before[p].name
       /\ after[p].numComponents = before[p].numComponents
       /\ after[p].components
            = before[p].components \o ValuesOf(ArraysNamed(e, tag, before[p].name)[1])

\* a Piece has been read without an exception: its PointData element, met
\* with a populated vertex property list, conformed to the list and was
\* appended to it, and so its CellData element and the cell property list
AppendChecked ==
  (ReadPiece /\ rpc' # "failed") =>
    \A list \in {"vertexProperties", "cellProperties"} :
      LET tag == IF list = "vertexProperties" THEN "PointData" ELSE "CellData"
      IN (reader[list] # <<>> /\ ChildrenTagged(GridChild, tag) # <<>>) =>
           /\ Conforms(GridChild, tag, reader[list])
           /\ Appended(GridChild, tag, reader[list], reader'[list])

\* C23: a PointData (CellData) element read with a populated property list
\* lets read go on only if it holds exactly one DataArray of the name and
\* the component count of each listed property and no other, and its values
\* are then appended after those of the earlier pieces
C23_AppendBranchChecks == [][AppendChecked]_vars

(* ---- C24 ---- *)
\* the ascii DataArray elements of the pieces of document d
AsciiArrays(d) ==
  {a \in UNION {{ArraysIn(DocPieces(d)[p], tag)[k] : k \in 1 .. Len(ArraysIn(DocPieces(d)[p], tag))} :
                  p \in 1 .. Len(DocPieces(d)),
                  tag \in {"PointData", "CellData", "Points", "Cells"}} :
     Declares(a, "format", "ascii")}

\* a value of the ascii array a is not of the grammar of its declared type
\* (a signed value in an array declared UInt), or its values end within a
\* tuple
GrammarRejects(a) ==
  \/ AttrOf(a, "type").prefix = "UInt" /\ \E k \in 1 .. Len(a.cdata) : a.cdata[k] < 0
  \/ /\ AttrOf(a, "NumberOfComponents").rest # 0
     /\ Len(a.cdata) % AttrOf(a, "NumberOfComponents").rest # 0

\* C24: the values of an ascii DataArray are read with the grammar of its
\* declared type: read succeeds on no document holding a signed value in an
\* array declared UInt, and the parser rejects a value only if it is such a
\* value or the values end within a tuple, so not a negative value of an
\* array declared Int
C24_GrammarOfDeclaredType ==
  /\ ReadOk => \A a \in AsciiArrays(doc) : ~GrammarRejects(a)
  /\ (rpc = "failed" /\ thrown.what = "CharacterDataParser: Invalid character")
       => \E a \in AsciiArrays(doc) : GrammarRejects(a)

(* ---- VTKCDataParser::readFloat ---- *)
\* the longest character data segment read
MaxChars == 4

\* the characters of a segment: the signs, a digit, the period, the two
\* exponent indicators, a whitespace character and a letter
Chars == {"+", "-", "7", ".", "e", "E", " ", "x"}

\* xml.readCharacterData() returns a negative number at the end of the
\* character data
EndOfData == "end"

IsSpace(c) == c = " "
IsDigit(c) == c = "7"
DigitValue(c) == IF c = "7" THEN 7 ELSE 0

\* the character the n-th call of xml.readCharacterData() returns
CharRead(n) == IF n <= Len(segment) THEN segment[n] ELSE EndOfData

\* the position the loop of skipWs stops at when lastChar is the
\* character read as the n-th
RECURSIVE SkipSpaces(_)
SkipSpaces(n) == IF IsSpace(CharRead(n)) THEN SkipSpaces(n + 1) ELSE n

otherThanCData == <<pc, readerVars, fileVars, clusterVars, parVars, docVars, loadVars>>

\* a segment of character data is about to be parsed
ParseInit ==
  /\ segment \in SeqsUpTo(Chars, MaxChars)
  /\ xmlPos = 0
  /\ lastChar = Null
  /\ fpc = "construct"
  /\ local = Null
  /\ thrown = NoError
  /\ DocIdle
  /\ LoadIdle
  /\ FileIdle

\* VTKCDataParser(sXml): lastChar(xml.readCharacterData()), then skipWs();
\* readFloat is called next
NewParser ==
  /\ fpc = "construct"
  /\ xmlPos' = SkipSpaces(1)
  /\ lastChar' = CharRead(SkipSpaces(1))
  /\ local' = [negate |-> FALSE, haveDigit |-> FALSE, result |-> 0, fraction |-> 0,
               fractionBase |-> 1, negateExponent |-> FALSE, exponent |-> 0]
  /\ fpc' = "sign"
  /\ UNCHANGED <<segment, thrown, otherThanCData>>

\* "Read a plus or minus sign"
ReadSign ==
  /\ fpc = "sign"
  /\ local' = [local EXCEPT !.negate = lastChar = "-"]
  /\ IF lastChar = "-" \/ lastChar = "+"
     THEN xmlPos' = xmlPos + 1 /\ lastChar' = CharRead(xmlPos + 1)
     ELSE UNCHANGED <<xmlPos, lastChar>>
  /\ fpc' = "integral"
  /\ UNCHANGED <<segment, thrown, otherThanCData>>

\* "Read an integral number part": one turn of the loop
IntegralDigit ==
  /\ fpc = "integral"
  /\ IsDigit(lastChar)
  /\ local' = [local EXCEPT !.haveDigit = TRUE,
                            !.result = @ * 10 + DigitValue(lastChar)]
  /\ xmlPos' = xmlPos + 1
  /\ lastChar' = CharRead(xmlPos + 1)
  /\ UNCHANGED <<segment, fpc, thrown, otherThanCData>>

\* "Check for a period" after the integral part
CheckPeriod ==
  /\ fpc = "integral"
  /\ ~IsDigit(lastChar)
  /\ IF lastChar = "."
     THEN xmlPos' = xmlPos + 1 /\ lastChar' = CharRead(xmlPos + 1) /\ fpc' = "fraction"
     ELSE UNCHANGED <<xmlPos, lastChar>> /\ fpc' = "check"
  /\ UNCHANGED <<segment, local, thrown, otherThanCData>>

\* "Read a fractional number part": one turn of the loop
FractionDigit ==
  /\ fpc = "fraction"
  /\ IsDigit(lastChar)
  /\ local' = [local EXCEPT !.haveDigit = TRUE,
                            !.fraction = @ * 10 + DigitValue(lastChar),
                            !.fractionBase = @ * 10]
  /\ xmlPos' = xmlPos + 1
  /\ lastChar' = CharRead(xmlPos + 1)
  /\ UNCHANGED <<segment, fpc, thrown, otherThanCData>>

\* the fractional part ends
FractionEnd ==
  /\ fpc = "fraction"
  /\ ~IsDigit(lastChar)
  /\ fpc' = "check"
  /\ UNCHANGED <<segment, xmlPos, lastChar, local, thrown, otherThanCData>>

\* mutant of CheckDigits: a number without digits is no error
CheckDigitsAny ==
  /\ fpc = "check"
  /\ IF lastChar = "e" \/ lastChar = "E"
     THEN xmlPos' = xmlPos + 1 /\ lastChar' = CharRead(xmlPos + 1) /\ fpc' = "exponentSign"
     ELSE UNCHANGED <<xmlPos, lastChar>> /\ fpc' = "whitespace"
  /\ UNCHANGED <<segment, local, thrown, otherThanCData>>

\* "Signal an error if no digits were read in the integral or fractional
\* part", then "Check for an exponent indicator"
CheckDigits ==
  /\ fpc = "check"
  /\ IF ~local.haveDigit
     THEN /\ fpc' = "failed"
          /\ thrown' = MakeStdErr("CharacterDataParser::readFloat: Invalid character", <<>>)
          /\ UNCHANGED <<xmlPos, lastChar>>
     ELSE /\ thrown' = thrown
          /\ IF lastChar = "e" \/ lastChar = "E"
             THEN /\ xmlPos' = xmlPos + 1
                  /\ lastChar' = CharRead(xmlPos + 1)
                  /\ fpc' = "exponentSign"
             ELSE UNCHANGED <<xmlPos, lastChar>> /\ fpc' = "whitespace"
  /\ UNCHANGED <<segment, local, otherThanCData>>

\* the sign of the exponent is read, and "Check if there are any digits in
\* the exponent"
ExponentSign ==
  /\ fpc = "exponentSign"
  /\ local' = [local EXCEPT !.negateExponent = lastChar = "-"]
  /\ IF lastChar = "-" \/ lastChar = "+"
     THEN xmlPos' = xmlPos + 1 /\ lastChar' = CharRead(xmlPos + 1)
     ELSE UNCHANGED <<xmlPos, lastChar>>
  /\ IF ~IsDigit(lastChar')
     THEN /\ fpc' = "failed"
          /\ thrown' = MakeStdErr("CharacterDataParser::readFloat: Invalid character", <<>>)
     ELSE fpc' = "exponent" /\ thrown' = thrown
  /\ UNCHANGED <<segment, otherThanCData>>

\* "Read the exponent": one turn of the loop
ExponentDigit ==
  /\ fpc = "exponent"
  /\ IsDigit(lastChar)
  /\ local' = [local EXCEPT !.exponent = @ * 10 + DigitValue(lastChar)]
  /\ xmlPos' = xmlPos + 1
  /\ lastChar' = CharRead(xmlPos + 1)
  /\ UNCHANGED <<segment, fpc, thrown, otherThanCData>>

\* the exponent ends
ExponentEnd ==
  /\ fpc = "exponent"
  /\ ~IsDigit(lastChar)
  /\ fpc' = "whitespace"
  /\ UNCHANGED <<segment, xmlPos, lastChar, local, thrown, otherThanCData>>

\* skipWs(true), and readFloat returns
SkipWs ==
  /\ fpc = "whitespace"
  /\ IF lastChar # EndOfData /\ ~IsSpace(lastChar)
     THEN /\ fpc' = "failed"
          /\ thrown' = MakeStdErr("CharacterDataParser: Missing required whitespace", <<>>)
          /\ UNCHANGED <<xmlPos, lastChar>>
     ELSE /\ xmlPos' = SkipSpaces(xmlPos)
          /\ lastChar' = CharRead(SkipSpaces(xmlPos))
          /\ fpc' = "done"
          /\ thrown' = thrown
  /\ UNCHANGED <<segment, local, otherThanCData>>

ParseNext ==
  \/ NewParser
  \/ ReadSign
  \/ IntegralDigit
  \/ CheckPeriod
  \/ FractionDigit
  \/ FractionEnd
  \/ CheckDigits
  \/ ExponentSign
  \/ ExponentDigit
  \/ ExponentEnd
  \/ SkipWs

ParseSpec == ParseInit /\ [][ParseNext]_vars

(* ---- C25 ---- *)
\* the characters from to to of w are digits
AllDigits(w, from, to) == \A k \in from .. to : IsDigit(w[k])

\* w is of the Float grammar: a sign of s characters, integral digits up to
\* a, a period and fractional digits up to b or neither, and an exponent
\* indicator, a sign of t characters and at least one digit up to the end,
\* or none of them
IsFloat(w) ==
  \E s \in 0 .. 1, a \in 0 .. Len(w), b \in 0 .. Len(w) :
    /\ s <= a /\ a <= b
    /\ s = 1 => w[1] \in {"+", "-"}
    /\ AllDigits(w, s + 1, a)
    /\ b > a => w[a + 1] = "." /\ AllDigits(w, a + 2, b)
    /\ (a - s) + (IF b > a THEN b - a - 1 ELSE 0) >= 1
    /\ \/ b = Len(w)
       \/ /\ b < Len(w)
          /\ w[b + 1] \in {"e", "E"}
          /\ \E t \in 0 .. 1 :
               /\ b + 1 + t < Len(w)
               /\ t = 1 => w[b + 2] \in {"+", "-"}
               /\ AllDigits(w, b + 2 + t, Len(w))

\* the position of the first character of the segment from n on that is
\* whitespace, the position after the last if there is none
RECURSIVE WordEnd(_)
WordEnd(n) == IF n > Len(segment) \/ IsSpace(segment[n]) THEN n ELSE WordEnd(n + 1)

\* the characters of the segment after its leading whitespace up to the
\* next whitespace character or the end of the segment
FirstWord == SubSeq(segment, SkipSpaces(1), WordEnd(SkipSpaces(1)) - 1)

\* C25: readFloat returns exactly if the characters up to the next
\* whitespace character or the end of the segment are of the Float
\* grammar, and then leaves the parser on the first character after them
\* that is not whitespace, or at the end of the segment; it throws otherwise
C25_FloatGrammar ==
  /\ fpc = "done" =>
       /\ IsFloat(FirstWord)
       /\ xmlPos = SkipSpaces(WordEnd(SkipSpaces(1)))
       /\ lastChar = CharRead(xmlPos)
       /\ thrown = NoError
  /\ fpc = "failed" => ~IsFloat(FirstWord) /\ thrown # NoError

\* a number ending in its period has been read and the whitespace after
\* it skipped up to the next character
C25_Witness ==
  /\ fpc = "done"
  /\ segment = <<"7", ".", " ", "x">>
  /\ lastChar = "x"

(* ---- VertexClusterer::createClusters on longer chains of points ---- *)
\* the largest number of raw vertices of a chain
MaxChain == 4

\* sequences of distinct points of a grid of two rows, one unit apart
ChainPoints == {<<x, y, 0>> : x \in 0 .. 2, y \in 0 .. 1}
Chains ==
  {vc \in SeqsUpTo(ChainPoints, MaxChain) :
     \A a, b \in 1 .. Len(vc) : a # b => vc[a] # vc[b]}

\* reader.read() has returned the vertices of a chain
ClusterInit ==
  /\ pc = "read"
  /\ vertexComponents \in Chains
  /\ rCellVertexIndices = FileCellVertexIndices(Len(vertexComponents), FALSE)
  /\ rCellTypes = FileCellTypes(Len(vertexComponents))
  /\ rVertexProperties = FileVertexProperties(0, Len(vertexComponents))
  /\ rCellProperties = FileCellProperties(0, Len(vertexComponents))
  /\ FileInit
  /\ pieceFiles = <<>>
  /\ threadArgs = <<>>
  /\ cpc = "idle"
  /\ ci = 0
  /\ ok = TRUE
  /\ baseIndex = 0
  /\ completionOrder = <<>>

ClusterNext ==
  \/ Construct
  \/ CreateClustersBegin
  \/ StartTraversal
  \/ Visit
  \/ MergeDone
  \/ AssignStep
  \/ CreateClustersReturn

ClusterSpec == ClusterInit /\ [][ClusterNext]_vars

(* ---- C26 ---- *)
\* the cluster reached from cluster c by n hops along the root pointers
RECURSIVE Ancestor(_, _, _)
Ancestor(clusters, c, n) ==
  IF n = 0 THEN c ELSE Ancestor(clusters, At(clusters, c).root, n - 1)

SelfRooted(clusters, c) == At(clusters, c).root = c

\* from every cluster a self-rooted cluster is reached: a path without a
\* cycle has fewer hops than there are clusters
Forest(clusters) ==
  \A c \in 0 .. Len(clusters) - 1 : SelfRooted(clusters, Ancestor(clusters, c, Len(clusters)))

\* every root pointer points at a self-rooted cluster
Flat(clusters) ==
  \A c \in 0 .. Len(clusters) - 1 : SelfRooted(clusters, At(clusters, c).root)

\* createClusters of the single-file clusterer is running
InCreateClusters == pc \in {"merge", "traverse", "assign"}

\* a step of createClusters that changes a root pointer lets it point at a
\* cluster that is self-rooted after the step, and a cluster that stops
\* being self-rooted is attached to one that was self-rooted before it; at
\* most one cluster stops being self-rooted in a step
RootsAttachToRoots ==
  (InCreateClusters /\ clusterer'.clusters # clusterer.clusters) =>
    LET before == clusterer.clusters
        after == clusterer'.clusters
        changed == {c \in 0 .. Len(before) - 1 : At(after, c).root # At(before, c).root}
        attached == {c \in changed : SelfRooted(before, c)}
    IN /\ \A c \in changed : SelfRooted(after, At(after, c).root)
       /\ \A c \in attached : SelfRooted(before, At(after, c).root)
       /\ Cardinality(attached) <= 1

\* C26: at every step of createClusters the root pointers form a forest,
\* every merge attaches one self-rooted cluster to another, and when
\* createClusters has returned every root pointer points directly at a
\* self-rooted cluster
C26_UnionFindForest ==
  /\ [](clusterer # Null => Forest(clusterer.clusters))
  /\ [](pc = "clustered" => Flat(clusterer.clusters))
  /\ [][RootsAttachToRoots]_vars

\* the short-circuit loop is entered with a path of two hops
C26_Witness ==
  /\ pc = "assign"
  /\ i = 0
  /\ ~Flat(clusterer.clusters)

(* ---- C27 ---- *)
\* C27: readDataArray returns or throws after finitely many steps whatever
\* number of components the DataArray declares: read never stands in a
\* loop that consumes no input
C27_ReadDataArrayTerminates == rpc # "looping"

(* ---- C28 ---- *)
\* sequence a is the beginning of sequence b
IsPrefix(a, b) == Len(a) <= Len(b) /\ SubSeq(b, 1, Len(a)) = a

\* reading a Piece leaves the vertices, connectivity entries and cell types
\* read before it as they are
EarlierPiecesKept ==
  ReadPiece =>
    /\ IsPrefix(reader.vertexComponents, reader'.vertexComponents)
    /\ IsPrefix(reader.cellVertexIndices, reader'.cellVertexIndices)
    /\ IsPrefix(reader.cellTypes, reader'.cellTypes)

\* after read every connectivity entry is its value in the file plus the
\* number of raw vertices of the pieces before its own
OffsetsByEarlierPieces ==
  ReadOk => reader.cellVertexIndices = ConnectivityFrom(DocPieces(doc), 1)

\* a document with Cells before Points in one piece is ingested as the
\* document with Points first in all pieces
OrderIndependent ==
  \A n \in 1 .. MaxDocPieces, np \in 1 .. MaxDocPoints :
    \A at \in 1 .. n :
      (ReadEnded /\ doc = Document("cellsFirst", n, np, at)) =>
        ReadOk /\ Ingested(reader) = Holds(Document("plain", n, np, at))

\* C28: after read of a document of several pieces every connectivity
\* entry of a piece is its piece-local value plus the number of raw
\* vertices of the pieces before it, whether Points or Cells comes first in
\* the piece, and reading a piece changes nothing read from earlier pieces
C28_OffsetsPerPiece ==
  /\ []OffsetsByEarlierPieces
  /\ []OrderIndependent
  /\ [][EarlierPiecesKept]_vars

\* the last piece of a document, with Cells before Points, has been read
\* with its entries offset by the vertices of the piece before it
C28_Witness ==
  /\ ReadOk
  /\ doc = Document("cellsFirst", MaxDocPieces, MaxDocPoints, MaxDocPieces)
  /\ reader.cellVertexIndices[8 * (MaxDocPieces - 1) + 1] = MaxDocPoints * (MaxDocPieces - 1)
  /\ reader.cellVertexIndices[1] = 0

(* ---- C29 ---- *)
\* the coordinator has not yet deleted the readers and clusterers
BeforeCleanup == cpc \in {"start", "join", "merge", "cleanup"}

\* a work assignment whose ok flag is set holds, until the coordinator
\* deletes it, a clusterer whose createClusters has returned and the
\* number of clusters that call returned
OkMeansClustered ==
  BeforeCleanup =>
    \A k \in Pieces :
      At(threadArgs, k).ok =>
        /\ At(threadArgs, k).clusterer # Null
        /\ At(threadArgs, k).clusterer.numClusters # Uninit
        /\ Flat(At(threadArgs, k).clusterer.clusters)
        /\ At(threadArgs, k).numVertices = At(threadArgs, k).clusterer.numClusters

\* the combining loop works on a piece only when the ok flags of all
\* pieces are set, so on readers and clusterers that all exist
MergeOnlyIfAllOk ==
  MergePiece =>
    \A k \in Pieces :
      /\ At(threadArgs, k).ok
      /\ At(threadArgs, k).clusterer # Null
      /\ At(threadArgs, k).reader # Null

\* C29: a piece worker's ok flag is set only with its clusterer created,
\* its clustering completed and its vertex count recorded as the
\* clusterer's, and the coordinator uses the clusterer and the reader of a
\* piece only when the ok flags of all pieces are set
C29_OkMeansClustered == []OkMeansClustered /\ [][MergeOnlyIfAllOk]_vars

\* the first piece has been merged while both work assignments hold a
\* clusterer and its count
C29_Witness ==
  /\ cpc = "merge"
  /\ ci = 1
  /\ \A k \in Pieces : At(threadArgs, k).ok
  /\ baseIndex = At(threadArgs, 0).clusterer.numClusters

(* ---- C30 ---- *)
\* C30: readBinaryDataArray never writes outside its staging buffer of 9
\* elements: no call reads more than 9 components per tuple into it
C30_StagingWithinBuffer == rpc # "idle" => reader.staged <= StagingSize

====
